---- MODULE Spec2Model ----
(***************************************************************************)
(* Model of the nuspell affix-data structures and parsers:                 *)
(*   src/src/nuspell/structures.cxx  Flag_Set, Substr_Replacer,            *)
(*                                   Break_Table, Prefix/Suffix_Entry      *)
(*   src/src/nuspell/aff_data.cxx    strip_bom, parse_aff and its helpers  *)
(* Strings are sequences of character codes (naturals), so that the        *)
(* lexicographic comparisons of the code can be computed.                  *)
(***************************************************************************)
EXTENDS Integers, Sequences, FiniteSets, TLC

VARIABLES
    flags, fs_op, fs_ret,          \* Flag_Set: backing sequence, last operation, erase result
    table, rep_pc, rep_s, rep_i,   \* Substr_Replacer: table, position in replace(), its s and i
    brk, brk_pc, brk_s, brk_words, \* Break_Table: table with its two iterators; break_and_spell's
    brk_calls, brk_ret,            \* s, the words the probe accepts, the probe calls, the result
    afx, afx_pc, afx_arg, afx_word,\* Prefix/Suffix_Entry: entry, position, caller's word, word
    bom_in, bom_pc, bom_line,      \* strip_bom: the stream, position, the line read after it
    aff_in, aff_pc, aff, aff_ret,  \* parse_aff: the stream, position, locals and Aff_Data, result
    dic_in, dic_pc, dic_line_number,\* parse_dic: the stream, position, its locals line_number,
    dic_line, dic_word, dic_flags, words,    \* line, word and flags, the Dic Map of the Aff_Data, the result
    dic_ret

fsVars == <<flags, fs_op, fs_ret>>
repVars == <<table, rep_pc, rep_s, rep_i>>
brkVars == <<brk, brk_pc, brk_s, brk_words, brk_calls, brk_ret>>
afxVars == <<afx, afx_pc, afx_arg, afx_word>>
bomVars == <<bom_in, bom_pc, bom_line>>
affVars == <<aff_in, aff_pc, aff, aff_ret>>
dicVars == <<dic_in, dic_pc, dic_line_number, dic_line, dic_word, dic_flags, words,
            dic_ret>>
vars == <<fsVars, repVars, brkVars, afxVars, bomVars, affVars, dicVars>>

notFs == <<repVars, brkVars, afxVars, bomVars, affVars, dicVars>>
notRep == <<fsVars, brkVars, afxVars, bomVars, affVars, dicVars>>
notBrk == <<fsVars, repVars, afxVars, bomVars, affVars, dicVars>>
notAfx == <<fsVars, repVars, brkVars, bomVars, affVars, dicVars>>
notBom == <<fsVars, repVars, brkVars, afxVars, affVars, dicVars>>
notAff == <<fsVars, repVars, brkVars, afxVars, bomVars, dicVars>>
notDic == <<fsVars, repVars, brkVars, afxVars, bomVars, affVars>>

(***************************************************************************)
(* Bounds of the model.                                                    *)
(***************************************************************************)
MaxFlag == 4
MaxFlagSeq == 3
MaxPairs == 3
MaxFairPairs == 2
MaxStr == 4
MaxPats == 3
MaxBrkStr == 4
MaxAffixLen == 2
MaxWordLen == 3
MaxStream == 3
MaxLines == 3
MaxDicLines == 2

(***************************************************************************)
(* Generic helpers.                                                        *)
(***************************************************************************)
SeqsUpTo(S, n) == UNION {[1..k -> S] : k \in 0..n}

RemoveAt(q, k) == SubSeq(q, 1, k - 1) \o SubSeq(q, k + 1, Len(q))

(***************************************************************************)
(* Flag_Set (structures.cxx 31-74).                                        *)
(***************************************************************************)
HIDDEN_HOMONYM_FLAG == 65535

FlagVals == (0..MaxFlag) \cup {HIDDEN_HOMONYM_FLAG}
FlagSeqs == SeqsUpTo(FlagVals, MaxFlagSeq)

RECURSIVE InsertSorted(_, _)
InsertSorted(x, q) ==
    IF q = <<>> THEN <<x>>
    ELSE IF x <= Head(q) THEN <<x>> \o q
    ELSE <<Head(q)>> \o InsertSorted(x, Tail(q))

\* std::sort on a sequence of integral values
RECURSIVE SortFlags(_)
SortFlags(q) == IF q = <<>> THEN <<>> ELSE InsertSorted(Head(q), SortFlags(Tail(q)))

\* std::unique followed by erase: keeps the first of every run of equal elements
RECURSIVE UniqueFlags(_)
UniqueFlags(q) ==
    IF Len(q) <= 1 THEN q
    ELSE IF q[1] = q[2] THEN UniqueFlags(Tail(q))
    ELSE <<q[1]>> \o UniqueFlags(Tail(q))

sort_uniq_nosort(c) == UniqueFlags(c)
sort_uniq(c) == UniqueFlags(SortFlags(c))

\* basic_string::find(ch): index of the first occurrence, 0 for npos
FindFlag(q, f) ==
    IF \E k \in 1..Len(q) : q[k] = f
    THEN CHOOSE k \in 1..Len(q) : q[k] = f /\ \A j \in 1..(k - 1) : q[j] # f
    ELSE 0

\* Flag_Set(const u16string&), Flag_Set(u16string&&)
FlagSetConstruct ==
    \E s \in FlagSeqs :
        /\ flags' = sort_uniq(s)
        /\ fs_op' = "construct"
        /\ fs_ret' = FALSE
        /\ UNCHANGED notFs

\* operator=(const u16string&), operator=(u16string&&)
FlagSetAssign ==
    \E s \in FlagSeqs :
        /\ flags' = sort_uniq(s)
        /\ fs_op' = "assign"
        /\ fs_ret' = FALSE
        /\ UNCHANGED notFs

FlagSetInsert ==
    \E s \in FlagSeqs :
        /\ flags' = sort_uniq(flags \o s)
        /\ fs_op' = "insert"
        /\ fs_ret' = FALSE
        /\ UNCHANGED notFs

FlagSetErase ==
    \E flag \in FlagVals :
        LET i == FindFlag(flags, flag) IN
        /\ flags' = IF i # 0 THEN RemoveAt(flags, i) ELSE flags
        /\ fs_ret' = (i # 0)
        /\ fs_op' = "erase"
        /\ UNCHANGED notFs

FlagSetInit ==
    /\ flags = <<>>
    /\ fs_op = "none"
    /\ fs_ret = FALSE

FlagSetNext ==
    \/ FlagSetConstruct
    \/ FlagSetAssign
    \/ FlagSetInsert
    \/ FlagSetErase

(***************************************************************************)
(* Substr_Replacer (structures.cxx 81-202).                                *)
(***************************************************************************)
Chars == {97, 98, 99}                                        \* 'a', 'b', 'c'
Keys == {<<>>, <<97>>, <<97, 98>>, <<97, 98, 99>>, <<98>>}   \* "", a, ab, abc, b
Repls == {<<>>, <<88>>, <<97, 98>>}                          \* "", X, ab
Table_Pairs == SeqsUpTo(Keys \X Repls, MaxPairs)
Strs == SeqsUpTo(Chars, MaxStr)

Min(a, b) == IF a < b THEN a ELSE b

\* basic_string::compare: -1, 0 or 1
RECURSIVE StrCompare(_, _)
StrCompare(x, y) ==
    IF x = <<>> /\ y = <<>> THEN 0
    ELSE IF x = <<>> THEN -1
    ELSE IF y = <<>> THEN 1
    ELSE IF Head(x) < Head(y) THEN -1
    ELSE IF Head(x) > Head(y) THEN 1
    ELSE StrCompare(Tail(x), Tail(y))

StrLess(x, y) == StrCompare(x, y) < 0

\* basic_string::replace(pos, n, str) with n clamped to the rest of the string
StrReplace(w, pos, n, str) ==
    LET m == Min(n, Len(w) - pos)
    IN  SubSeq(w, 1, pos) \o str \o SubSeq(w, pos + m + 1, Len(w))

\* the orders std::sort may leave the table in: sorted by key, entries with
\* equal keys in any relative order
SortedByKey(v) ==
    {[k \in 1..Len(v) |-> v[p[k]]] : p \in
        {q \in Permutations(1..Len(v)) :
            \A k \in 1..(Len(v) - 1) : ~StrLess(v[q[k + 1]][1], v[q[k]][1])}}

\* std::unique with key equality followed by erase
RECURSIVE UniqueKeys(_)
UniqueKeys(v) ==
    IF Len(v) <= 1 THEN v
    ELSE IF v[1][1] = v[2][1]
         THEN UniqueKeys(<<v[1]>> \o Tail(Tail(v)))
         ELSE <<v[1]>> \o UniqueKeys(Tail(v))

\* remove empty key ""
RemoveEmptyFront(v) ==
    IF v # <<>> /\ v[1][1] = <<>> THEN Tail(v) ELSE v

\* Substr_Replacer::sort_uniq applied to an already sorted table
rep_finish_keep_empty(sorted) == UniqueKeys(sorted)
rep_finish(sorted) == RemoveEmptyFront(UniqueKeys(sorted))

\* the tables Substr_Replacer::sort_uniq may produce from v
rep_sort_uniq(v) == {rep_finish(sorted) : sorted \in SortedByKey(v)}

\* Comparer_Str_Rep::cmp_prefix_of: p against the first min(|p|, |of|)
\* characters of of (of holds no NUL, so string(of.data()) is all of it)
cmp_prefix_of(p, of) == StrCompare(p, SubSeq(of, 1, Min(Len(p), Len(of))))

\* operator()(StrViewT a, const pair& b): the value is less than the entry
csr_value_less(a, b) == cmp_prefix_of(b[1], a) > 0
csr_eq(a, b) == cmp_prefix_of(a[1], b) = 0

\* std::upper_bound(first, first + len, s, csr) by bisection
RECURSIVE upper_bound(_, _, _, _)
upper_bound(t, first, len, s) ==
    IF len <= 0 THEN first
    ELSE LET half == len \div 2
             mid == first + half
         IN  IF csr_value_less(s, t[mid])
             THEN upper_bound(t, first, half, s)
             ELSE upper_bound(t, mid + 1, len - half - 1, s)

\* the for (;;) loop of find_match; Len(t) + 1 stands for end(t)
RECURSIVE find_match_loop(_, _, _, _)
find_match_loop(t, s, it, last_match) ==
    LET it2 == upper_bound(t, it, Len(t) + 1 - it, s)
    IN  IF it2 = it THEN last_match
        ELSE IF csr_eq(t[it2 - 1], s)
             THEN find_match_loop(t, s, it2, it2 - 1)
             ELSE last_match

find_match(t, s) == find_match_loop(t, s, 1, Len(t) + 1)

\* Substr_Replacer(const Table_Pairs&), Substr_Replacer(Table_Pairs&&)
ReplacerConstruct ==
    /\ rep_pc = "new"
    /\ \E v \in Table_Pairs : table' \in rep_sort_uniq(v)
    /\ rep_pc' = "idle"
    /\ UNCHANGED <<rep_s, rep_i>>
    /\ UNCHANGED notRep

\* the default constructor, as used for the members input_substr_replacer
\* and output_substr_replacer
ReplacerDefault ==
    /\ rep_pc = "new"
    /\ table' = <<>>
    /\ rep_pc' = "default"
    /\ UNCHANGED <<rep_s, rep_i>>
    /\ UNCHANGED notRep

\* operator=(const Table_Pairs&), operator=(Table_Pairs&&), as parse_aff
\* assigns the default-constructed members once
ReplacerAssign ==
    /\ rep_pc = "default"
    /\ \E v \in Table_Pairs : table' \in rep_sort_uniq(v)
    /\ rep_pc' = "idle"
    /\ UNCHANGED <<rep_s, rep_i>>
    /\ UNCHANGED notRep

\* replace(s): entry, with the early return on an empty table
ReplaceCall ==
    /\ rep_pc \in {"idle", "default"}
    /\ \E s \in Strs : rep_s' = s
    /\ rep_i' = 0
    /\ rep_pc' = IF table = <<>> THEN "done" ELSE "loop"
    /\ UNCHANGED table
    /\ UNCHANGED notRep

\* an iteration that leaves i before the replacement it has put in
ReplaceStep_no_advance ==
    /\ rep_pc = "loop"
    /\ rep_i < Len(rep_s)
    /\ LET substr == SubSeq(rep_s, rep_i + 1, Len(rep_s))
           it == find_match(table, substr)
       IN  IF it # Len(table) + 1
           THEN /\ rep_s' = StrReplace(rep_s, rep_i, Len(table[it][1]), table[it][2])
                /\ rep_i' = rep_i
           ELSE /\ rep_i' = rep_i + 1
                /\ UNCHANGED rep_s
    /\ UNCHANGED <<table, rep_pc>>
    /\ UNCHANGED notRep

\* one iteration of the for loop of replace
ReplaceStep ==
    /\ rep_pc = "loop"
    /\ rep_i < Len(rep_s)
    /\ LET substr == SubSeq(rep_s, rep_i + 1, Len(rep_s))
           it == find_match(table, substr)
       IN  IF it # Len(table) + 1
           THEN /\ rep_s' = StrReplace(rep_s, rep_i, Len(table[it][1]), table[it][2])
                /\ rep_i' = rep_i + Len(table[it][2])
           ELSE /\ rep_i' = rep_i + 1
                /\ UNCHANGED rep_s
    /\ UNCHANGED <<table, rep_pc>>
    /\ UNCHANGED notRep

\* the loop condition fails: return s
ReplaceReturn ==
    /\ rep_pc = "loop"
    /\ ~(rep_i < Len(rep_s))
    /\ rep_pc' = "done"
    /\ UNCHANGED <<table, rep_s, rep_i>>
    /\ UNCHANGED notRep

ReplacerInit ==
    /\ table = <<>>
    /\ rep_pc = "new"
    /\ rep_s = <<>>
    /\ rep_i = 0

ReplacerNext ==
    \/ ReplacerConstruct
    \/ ReplacerDefault
    \/ ReplacerAssign
    \/ ReplaceCall
    \/ ReplaceStep
    \/ ReplaceReturn

(***************************************************************************)
(* Break_Table (structures.cxx 212-309).                                   *)
(***************************************************************************)
CARET == 94
DOLAR == 36
HYPHEN == 45

\* the break patterns a caller may pass: "", ^, $, ^-, -$, -, ^^-, -$$
BreakPatterns ==
    {<<>>, <<CARET>>, <<DOLAR>>, <<CARET, HYPHEN>>, <<HYPHEN, DOLAR>>, <<HYPHEN>>,
     <<CARET, CARET, HYPHEN>>, <<HYPHEN, DOLAR, DOLAR>>}
Table_Str == SeqsUpTo(BreakPatterns, MaxPats)
BreakStrs == SeqsUpTo({97, HYPHEN}, MaxBrkStr)
\* the words a probe may accept: a, -, -a
ProbeWords == {<<97>>, <<HYPHEN>>, <<HYPHEN, 97>>}

is_start_word_break(x) == x # <<>> /\ x[1] = CARET
is_end_word_break(x) == x # <<>> /\ x[Len(x)] = DOLAR

\* the elements of q that satisfy the predicate given to std::partition
Satisfying_start(q) == {q[k] : k \in {j \in 1..Len(q) : is_start_word_break(q[j])}}
Satisfying_end(q) == {q[k] : k \in {j \in 1..Len(q) : is_end_word_break(q[j])}}

\* the arrangements of q
Arrangements(q) == {[k \in 1..Len(q) |-> q[p[k]]] : p \in Permutations(1..Len(q))}

\* std::partition: the elements satisfying the predicate (those in sat) come
\* first, the relative order inside both groups is unspecified.  The result
\* is the set of records [seq, mid], mid the number of elements of the first
\* group.
Partition(q, sat) ==
    LET yes == SelectSeq(q, LAMBDA x : x \in sat)
        no == SelectSeq(q, LAMBDA x : x \notin sat)
    IN  {[seq |-> a \o b, mid |-> Len(yes)] : a \in Arrangements(yes), b \in Arrangements(no)}

EraseFirstChar(e) == Tail(e)
PopBack(e) == SubSeq(e, 1, Len(e) - 1)

\* the remove_if / erase of order_entries over the range [from + 1, end)
RemoveEmptyFrom(q, from) ==
    SubSeq(q, 1, from) \o SelectSeq(SubSeq(q, from + 1, Len(q)), LAMBDA x : x # <<>>)

\* Break_Table::order_entries: the tables it may leave, each with the two
\* iterators as offsets from begin(table)
order_entries(v) ==
    UNION {
        LET stripped == [k \in 1..Len(p1.seq) |->
                            IF k <= p1.mid THEN EraseFirstChar(p1.seq[k]) ELSE p1.seq[k]]
            rest == SubSeq(stripped, p1.mid + 1, Len(stripped))
        IN  {LET t2 == SubSeq(stripped, 1, p1.mid) \o p2.seq
                 ew == p1.mid + p2.mid
                 popped == [k \in 1..Len(t2) |->
                               IF k > p1.mid /\ k <= ew THEN PopBack(t2[k]) ELSE t2[k]]
             IN  [table |-> RemoveEmptyFrom(popped, ew),
                  start_word_breaks_last_it |-> p1.mid,
                  end_word_breaks_last_it |-> ew]
             : p2 \in Partition(rest, Satisfying_end(rest))}
        : p1 \in Partition(v, Satisfying_start(v))}

start_word_breaks(bt) == SubSeq(bt.table, 1, bt.start_word_breaks_last_it)
end_word_breaks(bt) ==
    SubSeq(bt.table, bt.start_word_breaks_last_it + 1, bt.end_word_breaks_last_it)
middle_word_breaks(bt) == SubSeq(bt.table, bt.end_word_breaks_last_it + 1, Len(bt.table))

\* basic_string::substr(pos)
Substr(w, pos) == SubSeq(w, pos + 1, Len(w))

\* basic_string::find(pat): offset of the first occurrence, npos (-1 here) if none
npos == -1
StrFind(w, pat) ==
    LET hits == {k \in 0..(Len(w) - Len(pat)) : SubSeq(w, k + 1, k + Len(pat)) = pat}
    IN  IF hits = {} THEN npos ELSE CHOOSE k \in hits : \A j \in hits : k <= j

\* s.compare(pos, n, pat) == 0, n clamped to the rest of s
CompareEq(w, pos, n, pat) == SubSeq(w, pos + 1, pos + Min(n, Len(w) - pos)) = pat

Probe(kind, pat, arg) == [kind |-> kind, pat |-> pat, arg |-> arg]

\* the third loop of break_and_spell, from pattern k of the middle breaks on
RECURSIVE bas_middle(_, _, _, _, _)
bas_middle(pats, k, s, W, calls) ==
    IF k > Len(pats) THEN [calls |-> calls, ret |-> FALSE]
    ELSE LET pat == pats[k]
             i == StrFind(s, pat)
         IN  \* i is unsigned: npos is its largest value, and a found i has
             \* pat.size() <= s.size(), so the subtraction does not wrap
             IF i # npos /\ i > 0 /\ i < Len(s) - Len(pat)
             THEN LET part1 == SubSeq(s, 1, i)
                      part2 == Substr(s, i + Len(pat))
                      c1 == Append(calls, Probe("middle", pat, part1))
                      c2 == Append(c1, Probe("middle", pat, part2))
                  IN  IF part1 \notin W THEN bas_middle(pats, k + 1, s, W, c1)
                      ELSE IF part2 \in W THEN [calls |-> c2, ret |-> TRUE]
                      ELSE bas_middle(pats, k + 1, s, W, c2)
             ELSE bas_middle(pats, k + 1, s, W, calls)

\* the argument the second loop passes to spell_func
end_break_arg(s, pat) == Substr(s, Len(pat))

\* the second loop of break_and_spell, from pattern k of the end breaks on
RECURSIVE bas_end(_, _, _, _, _)
bas_end(bt, k, s, W, calls) ==
    LET pats == end_word_breaks(bt) IN
    IF k > Len(pats) THEN bas_middle(middle_word_breaks(bt), 1, s, W, calls)
    ELSE LET pat == pats[k]
         IN  IF Len(pat) > Len(s) THEN bas_end(bt, k + 1, s, W, calls)
             ELSE IF CompareEq(s, Len(s) - Len(pat), Len(pat), pat)
             THEN LET arg == end_break_arg(s, pat)
                      c1 == Append(calls, Probe("end", pat, arg))
                  IN  IF arg \in W THEN [calls |-> c1, ret |-> TRUE]
                      ELSE bas_end(bt, k + 1, s, W, c1)
             ELSE bas_end(bt, k + 1, s, W, calls)

\* the first loop of break_and_spell, from pattern k of the start breaks on
RECURSIVE bas_start(_, _, _, _, _)
bas_start(bt, k, s, W, calls) ==
    LET pats == start_word_breaks(bt) IN
    IF k > Len(pats) THEN bas_end(bt, 1, s, W, calls)
    ELSE LET pat == pats[k]
         IN  IF CompareEq(s, 0, Len(pat), pat)
             THEN LET arg == Substr(s, Len(pat))
                      c1 == Append(calls, Probe("start", pat, arg))
                  IN  IF arg \in W THEN [calls |-> c1, ret |-> TRUE]
                      ELSE bas_start(bt, k + 1, s, W, c1)
             ELSE bas_start(bt, k + 1, s, W, calls)

\* break_and_spell(s, spell_func), spell_func accepting exactly the words W:
\* the probe calls made, in order, and the value returned
break_and_spell(bt, s, W) == bas_start(bt, 1, s, W, <<>>)

EmptyBreakTable ==
    [table |-> <<>>, start_word_breaks_last_it |-> 0, end_word_breaks_last_it |-> 0]

\* Break_Table(const Table_Str&), Break_Table(Table_Str&&)
BreakConstruct ==
    /\ brk_pc = "new"
    /\ \E v \in Table_Str : brk' \in order_entries(v)
    /\ brk_pc' = "idle"
    /\ UNCHANGED <<brk_s, brk_words, brk_calls, brk_ret>>
    /\ UNCHANGED notBrk

\* the default constructor, as used for the member break_table
BreakDefault ==
    /\ brk_pc = "new"
    /\ brk' = EmptyBreakTable
    /\ brk_pc' = "default"
    /\ UNCHANGED <<brk_s, brk_words, brk_calls, brk_ret>>
    /\ UNCHANGED notBrk

\* operator=(const Table_Str&), operator=(Table_Str&&), as parse_aff assigns
\* the default-constructed member once
BreakAssign ==
    /\ brk_pc = "default"
    /\ \E v \in Table_Str : brk' \in order_entries(v)
    /\ brk_pc' = "idle"
    /\ UNCHANGED <<brk_s, brk_words, brk_calls, brk_ret>>
    /\ UNCHANGED notBrk

BreakAndSpell ==
    /\ brk_pc \in {"idle", "default"}
    /\ \E s \in BreakStrs, W \in SUBSET ProbeWords :
        LET r == break_and_spell(brk, s, W)
        IN  /\ brk_s' = s
            /\ brk_words' = W
            /\ brk_calls' = r.calls
            /\ brk_ret' = r.ret
    /\ brk_pc' = "done"
    /\ UNCHANGED brk
    /\ UNCHANGED notBrk

BreakInit ==
    /\ brk = EmptyBreakTable
    /\ brk_pc = "new"
    /\ brk_s = <<>>
    /\ brk_words = {}
    /\ brk_calls = <<>>
    /\ brk_ret = FALSE

BreakNext ==
    \/ BreakConstruct
    \/ BreakDefault
    \/ BreakAssign
    \/ BreakAndSpell

(***************************************************************************)
(* Prefix_Entry and Suffix_Entry (structures.cxx 328-500).                 *)
(***************************************************************************)
AffixStrs == SeqsUpTo({97, 98}, MaxAffixLen)
AffixWords == SeqsUpTo({97, 98}, MaxWordLen)

\* Prefix_Entry::to_root
Prefix_to_root(e, word) == StrReplace(word, 0, Len(e.appending), e.stripping)

\* Prefix_Entry::to_derived
Prefix_to_derived_by_appending(e, word) == StrReplace(word, 0, Len(e.appending), e.appending)
Prefix_to_derived(e, word) == StrReplace(word, 0, Len(e.stripping), e.appending)

\* Suffix_Entry::to_root; word.size() - appending.size() is unsigned, and
\* basic_string::replace throws out_of_range when it wraps
Suffix_to_root_throws(e, word) == Len(word) < Len(e.appending)
Suffix_to_root(e, word) ==
    StrReplace(word, Len(word) - Len(e.appending), Len(e.appending), e.stripping)

\* Suffix_Entry::to_derived
Suffix_to_derived_throws(e, word) == Len(word) < Len(e.stripping)
Suffix_to_derived(e, word) ==
    StrReplace(word, Len(word) - Len(e.stripping), Len(e.stripping), e.appending)

to_root_throws(e, word) == e.kind = "SFX" /\ Suffix_to_root_throws(e, word)
to_root(e, word) ==
    IF e.kind = "PFX" THEN Prefix_to_root(e, word) ELSE Suffix_to_root(e, word)
to_derived_throws(e, word) == e.kind = "SFX" /\ Suffix_to_derived_throws(e, word)
to_derived(e, word) ==
    IF e.kind = "PFX" THEN Prefix_to_derived(e, word) ELSE Suffix_to_derived(e, word)

\* Prefix_Entry::Prefix_Entry, Suffix_Entry::Suffix_Entry
AffixConstruct ==
    /\ afx_pc = "new"
    /\ \E kind \in {"PFX", "SFX"}, strip \in AffixStrs, append \in AffixStrs :
          afx' = [kind |-> kind, stripping |-> strip, appending |-> append]
    /\ afx_pc' = "ready"
    /\ UNCHANGED <<afx_arg, afx_word>>
    /\ UNCHANGED notAfx

\* to_root(word) on a caller's word
AffixToRoot ==
    /\ afx_pc = "ready"
    /\ \E w \in AffixWords :
        /\ afx_arg' = w
        /\ IF to_root_throws(afx, w)
           THEN afx_word' = w /\ afx_pc' = "threw"
           ELSE afx_word' = to_root(afx, w) /\ afx_pc' = "root"
    /\ UNCHANGED afx
    /\ UNCHANGED notAfx

\* to_derived(word) on the root just computed
AffixToDerived ==
    /\ afx_pc = "root"
    /\ IF to_derived_throws(afx, afx_word)
       THEN afx_pc' = "threw" /\ UNCHANGED afx_word
       ELSE afx_word' = to_derived(afx, afx_word) /\ afx_pc' = "derived"
    /\ UNCHANGED <<afx, afx_arg>>
    /\ UNCHANGED notAfx

AffixInit ==
    /\ afx = [kind |-> "PFX", stripping |-> <<>>, appending |-> <<>>]
    /\ afx_pc = "new"
    /\ afx_arg = <<>>
    /\ afx_word = <<>>

AffixNext ==
    \/ AffixConstruct
    \/ AffixToRoot
    \/ AffixToDerived

(***************************************************************************)
(* Input streams and strip_bom (aff_data.cxx 99-102, 500-510).             *)
(* An istream is its buffer, the read position in it, the state bits and   *)
(* the count of the last unformatted read.                                 *)
(***************************************************************************)
BOM == <<239, 187, 191>>                   \* "\xEF\xBB\xBF"
NEWLINE == 10
\* the bytes of the streams given to strip_bom: the BOM bytes, 'a', '\n'
StreamBytes == {239, 187, 191, 97, NEWLINE}
Streams == SeqsUpTo(StreamBytes, MaxStream)

IStream(bytes) ==
    [buf |-> bytes, pos |-> 0, eofbit |-> FALSE, failbit |-> FALSE, badbit |-> FALSE,
     gcount |-> 0]

\* basic_ios::good()
good(in) == ~in.eofbit /\ ~in.failbit /\ ~in.badbit

\* reset_failbit_istream: in.clear(in.rdstate() & ~in.failbit)
reset_failbit_istream(in) == [in EXCEPT !.failbit = FALSE]

\* in.read(&bom[0], n): the stream after it; gcount tells how much of the
\* buffer was stored
IstreamRead(in, n) ==
    IF ~good(in) THEN [in EXCEPT !.failbit = TRUE, !.gcount = 0]
    ELSE LET k == Min(n, Len(in.buf) - in.pos)
         IN  [in EXCEPT !.pos = @ + k, !.gcount = k,
                        !.eofbit = (k < n), !.failbit = (k < n)]

\* in.putback(c): clears eofbit, then does nothing but set failbit unless
\* the stream is good
IstreamPutback(in, c) ==
    LET cleared == [in EXCEPT !.gcount = 0, !.eofbit = FALSE]
    IN  IF ~good(cleared) THEN [cleared EXCEPT !.failbit = TRUE]
        ELSE IF cleared.pos > 0 /\ cleared.buf[cleared.pos] = c
             THEN [cleared EXCEPT !.pos = @ - 1]
             ELSE [cleared EXCEPT !.badbit = TRUE]

\* the for loop of strip_bom: putback(bom[i]) for i from the given i down to 0
RECURSIVE PutbackLoop(_, _, _)
PutbackLoop(in, bom, i) ==
    IF i < 0 THEN in ELSE PutbackLoop(IstreamPutback(in, bom[i + 1]), bom, i - 1)

\* strip_bom(in)
strip_bom(in) ==
    LET rd == IstreamRead(in, 3)
        n == rd.gcount
        bom == SubSeq(in.buf, in.pos + 1, in.pos + n) \o [k \in 1..(3 - n) |-> 0]
    IN  IF n # 3 \/ bom # BOM
        THEN reset_failbit_istream(PutbackLoop(rd, bom, n - 1))
        ELSE rd

\* the offset of the first '\n' at or after pos, Len(buf) if there is none
NextNewline(in) ==
    LET hits == {k \in in.pos..(Len(in.buf) - 1) : in.buf[k + 1] = NEWLINE}
    IN  IF hits = {} THEN Len(in.buf) ELSE CHOOSE k \in hits : \A j \in hits : k <= j

\* getline(in, line): the stream after it and the line read (old if none)
getline(in, old) ==
    IF ~good(in) THEN [in |-> [in EXCEPT !.failbit = TRUE], line |-> old]
    ELSE LET nl == NextNewline(in)
             text == SubSeq(in.buf, in.pos + 1, nl)
         IN  IF nl < Len(in.buf)
             THEN [in |-> [in EXCEPT !.pos = nl + 1], line |-> text]
             ELSE [in |-> [in EXCEPT !.pos = nl, !.eofbit = TRUE,
                                     !.failbit = (text = <<>>)],
                   line |-> text]

\* a caller strips the BOM of its stream
BomStrip ==
    /\ bom_pc = "start"
    /\ bom_in' = strip_bom(bom_in)
    /\ bom_pc' = "stripped"
    /\ UNCHANGED bom_line
    /\ UNCHANGED notBom

\* and reads the first line, as parse_aff and parse_dic do
BomGetline ==
    /\ bom_pc = "stripped"
    /\ LET r == getline(bom_in, bom_line)
       IN  bom_in' = r.in /\ bom_line' = r.line
    /\ bom_pc' = "read"
    /\ UNCHANGED notBom

BomIdle ==
    /\ bom_in = IStream(<<>>)
    /\ bom_pc = "start"
    /\ bom_line = <<>>

BomInit ==
    /\ bom_in \in {IStream(b) : b \in Streams}
    /\ bom_pc = "start"
    /\ bom_line = <<>>

BomNext ==
    \/ BomStrip
    \/ BomGetline

\* the character codes of the keywords of the affix grammar
Ascii ==
    ("PFX" :> <<80, 70, 88>>)
    @@ ("SFX" :> <<83, 70, 88>>)
    @@ ("LANG" :> <<76, 65, 78, 71>>)
    @@ ("IGNORE" :> <<73, 71, 78, 79, 82, 69>>)
    @@ ("KEY" :> <<75, 69, 89>>)
    @@ ("TRY" :> <<84, 82, 89>>)
    @@ ("WORDCHARS" :> <<87, 79, 82, 68, 67, 72, 65, 82, 83>>)
    @@ ("COMPLEXPREFIXES" :> <<67, 79, 77, 80, 76, 69, 88, 80, 82, 69, 70, 73, 88, 69, 83>>)
    @@ ("ONLYMAXDIFF" :> <<79, 78, 76, 89, 77, 65, 88, 68, 73, 70, 70>>)
    @@ ("NOSPLITSUGS" :> <<78, 79, 83, 80, 76, 73, 84, 83, 85, 71, 83>>)
    @@ ("SUGSWITHDOTS" :> <<83, 85, 71, 83, 87, 73, 84, 72, 68, 79, 84, 83>>)
    @@ ("FORBIDWARN" :> <<70, 79, 82, 66, 73, 68, 87, 65, 82, 78>>)
    @@ ("COMPOUNDMORESUFFIXES" :> <<67, 79, 77, 80, 79, 85, 78, 68, 77, 79, 82, 69, 83, 85, 70, 70, 73, 88, 69, 83>>)
    @@ ("CHECKCOMPOUNDDUP" :> <<67, 72, 69, 67, 75, 67, 79, 77, 80, 79, 85, 78, 68, 68, 85, 80>>)
    @@ ("CHECKCOMPOUNDREP" :> <<67, 72, 69, 67, 75, 67, 79, 77, 80, 79, 85, 78, 68, 82, 69, 80>>)
    @@ ("CHECKCOMPOUNDCASE" :> <<67, 72, 69, 67, 75, 67, 79, 77, 80, 79, 85, 78, 68, 67, 65, 83, 69>>)
    @@ ("CHECKCOMPOUNDTRIPLE" :> <<67, 72, 69, 67, 75, 67, 79, 77, 80, 79, 85, 78, 68, 84, 82, 73, 80, 76, 69>>)
    @@ ("SIMPLIFIEDTRIPLE" :> <<83, 73, 77, 80, 76, 73, 70, 73, 69, 68, 84, 82, 73, 80, 76, 69>>)
    @@ ("FULLSTRIP" :> <<70, 85, 76, 76, 83, 84, 82, 73, 80>>)
    @@ ("CHECKSHARPS" :> <<67, 72, 69, 67, 75, 83, 72, 65, 82, 80, 83>>)
    @@ ("MAP" :> <<77, 65, 80>>)
    @@ ("MAXCPDSUGS" :> <<77, 65, 88, 67, 80, 68, 83, 85, 71, 83>>)
    @@ ("MAXNGRAMSUGS" :> <<77, 65, 88, 78, 71, 82, 65, 77, 83, 85, 71, 83>>)
    @@ ("MAXDIFF" :> <<77, 65, 88, 68, 73, 70, 70>>)
    @@ ("COMPOUNDMIN" :> <<67, 79, 77, 80, 79, 85, 78, 68, 77, 73, 78>>)
    @@ ("COMPOUNDWORDMAX" :> <<67, 79, 77, 80, 79, 85, 78, 68, 87, 79, 82, 68, 77, 65, 88>>)
    @@ ("REP" :> <<82, 69, 80>>)
    @@ ("PHONE" :> <<80, 72, 79, 78, 69>>)
    @@ ("ICONV" :> <<73, 67, 79, 78, 86>>)
    @@ ("OCONV" :> <<79, 67, 79, 78, 86>>)
    @@ ("NOSUGGEST" :> <<78, 79, 83, 85, 71, 71, 69, 83, 84>>)
    @@ ("WARN" :> <<87, 65, 82, 78>>)
    @@ ("COMPOUNDFLAG" :> <<67, 79, 77, 80, 79, 85, 78, 68, 70, 76, 65, 71>>)
    @@ ("COMPOUNDBEGIN" :> <<67, 79, 77, 80, 79, 85, 78, 68, 66, 69, 71, 73, 78>>)
    @@ ("COMPOUNDLAST" :> <<67, 79, 77, 80, 79, 85, 78, 68, 76, 65, 83, 84>>)
    @@ ("COMPOUNDMIDDLE" :> <<67, 79, 77, 80, 79, 85, 78, 68, 77, 73, 68, 68, 76, 69>>)
    @@ ("ONLYINCOMPOUND" :> <<79, 78, 76, 89, 73, 78, 67, 79, 77, 80, 79, 85, 78, 68>>)
    @@ ("COMPOUNDPERMITFLAG" :> <<67, 79, 77, 80, 79, 85, 78, 68, 80, 69, 82, 77, 73, 84, 70, 76, 65, 71>>)
    @@ ("COMPOUNDFORBIDFLAG" :> <<67, 79, 77, 80, 79, 85, 78, 68, 70, 79, 82, 66, 73, 68, 70, 76, 65, 71>>)
    @@ ("COMPOUNDROOT" :> <<67, 79, 77, 80, 79, 85, 78, 68, 82, 79, 79, 84>>)
    @@ ("FORCEUCASE" :> <<70, 79, 82, 67, 69, 85, 67, 65, 83, 69>>)
    @@ ("CIRCUMFIX" :> <<67, 73, 82, 67, 85, 77, 70, 73, 88>>)
    @@ ("FORBIDDENWORD" :> <<70, 79, 82, 66, 73, 68, 68, 69, 78, 87, 79, 82, 68>>)
    @@ ("KEEPCASE" :> <<75, 69, 69, 80, 67, 65, 83, 69>>)
    @@ ("NEEDAFFIX" :> <<78, 69, 69, 68, 65, 70, 70, 73, 88>>)
    @@ ("SUBSTANDARD" :> <<83, 85, 66, 83, 84, 65, 78, 68, 65, 82, 68>>)
    @@ ("SET" :> <<83, 69, 84>>)
    @@ ("FLAG" :> <<70, 76, 65, 71>>)
    @@ ("AF" :> <<65, 70>>)
    @@ ("AM" :> <<65, 77>>)
    @@ ("BREAK" :> <<66, 82, 69, 65, 75>>)
    @@ ("CHECKCOMPOUNDPATTERN" :> <<67, 72, 69, 67, 75, 67, 79, 77, 80, 79, 85, 78, 68, 80, 65, 84, 84, 69, 82, 78>>)
    @@ ("COMPOUNDRULE" :> <<67, 79, 77, 80, 79, 85, 78, 68, 82, 85, 76, 69>>)
    @@ ("COMPOUNDSYLLABLE" :> <<67, 79, 77, 80, 79, 85, 78, 68, 83, 89, 76, 76, 65, 66, 76, 69>>)
    @@ ("SYLLABLENUM" :> <<83, 89, 76, 76, 65, 66, 76, 69, 78, 85, 77>>)
    @@ ("LONG" :> <<76, 79, 78, 71>>)
    @@ ("NUM" :> <<78, 85, 77>>)
    @@ ("UTF-8" :> <<85, 84, 70, 45, 56>>)
    @@ ("UTF8" :> <<85, 84, 70, 56>>)
    @@ ("ISO8859-1" :> <<73, 83, 79, 56, 56, 53, 57, 45, 49>>)
    @@ ("en_US" :> <<101, 110, 95, 85, 83>>)

(***************************************************************************)
(* Formatted and unformatted extraction from an istream, as the parsers of *)
(* aff_data.cxx use it on the line stream ss.                              *)
(***************************************************************************)
\* isspace in the classic locale: \t \n \v \f \r and the space
SpaceChars == {9, 10, 11, 12, 13, 32}
DigitChars == 48..57
SLASH == 47
COMMA == 44
\* istream::traits_type::eof()
EOF == -1

\* the first offset at or after pos whose character is not in S (is in S),
\* the size of buf if there is none
ScanIn(buf, pos, S) ==
    LET stops == {p \in pos..Len(buf) : p = Len(buf) \/ buf[p + 1] \notin S}
    IN  CHOOSE p \in stops : \A q \in stops : p <= q
ScanNotIn(buf, pos, S) ==
    LET stops == {p \in pos..Len(buf) : p = Len(buf) \/ buf[p + 1] \in S}
    IN  CHOOSE p \in stops : \A q \in stops : p <= q

\* in >> ws: fails on a stream that is not good, else skips the spaces and
\* sets eofbit when it reaches the end
IstreamWs(in) ==
    IF ~good(in) THEN [in EXCEPT !.failbit = TRUE]
    ELSE LET p == ScanIn(in.buf, in.pos, SpaceChars)
         IN  [in EXCEPT !.pos = p, !.eofbit = (p = Len(in.buf))]

\* the sentry of a formatted extraction: as in >> ws, and reaching the end
\* sets failbit too
Sentry(in) ==
    IF ~good(in) THEN [in EXCEPT !.failbit = TRUE]
    ELSE LET p == ScanIn(in.buf, in.pos, SpaceChars)
         IN  [in EXCEPT !.pos = p, !.eofbit = (p = Len(in.buf)),
                        !.failbit = (p = Len(in.buf))]

\* in >> str for a string: the stream after it and the value of str, which
\* keeps its old value when the sentry fails.  In the Extract operators s is
\* the stream as the sentry left it.
ExtractString(s, old) ==
    IF ~good(s) THEN [in |-> s, val |-> old]
    ELSE LET e == ScanNotIn(s.buf, s.pos, SpaceChars)
         IN  [in |-> [s EXCEPT !.pos = e, !.eofbit = (e = Len(s.buf))],
              val |-> SubSeq(s.buf, s.pos + 1, e)]
ReadString(in, old) == ExtractString(Sentry(in), old)

\* the value of a sequence of decimal digits
RECURSIVE DigitsValue(_)
DigitsValue(d) ==
    IF d = <<>> THEN 0
    ELSE 10 * DigitsValue(SubSeq(d, 1, Len(d) - 1)) + (d[Len(d)] - 48)

\* in >> n for an unsigned integer type with the largest value max: n keeps
\* its old value when the sentry fails, becomes 0 when no digit is there and
\* max when the digits exceed max (both with failbit).  The lines of the
\* model carry no sign.
ExtractNumber(s, old, max) ==
    IF ~good(s) THEN [in |-> s, val |-> old]
    ELSE LET e == ScanIn(s.buf, s.pos, DigitChars)
             v == DigitsValue(SubSeq(s.buf, s.pos + 1, e))
         IN  IF e = s.pos THEN [in |-> [s EXCEPT !.failbit = TRUE], val |-> 0]
             ELSE [in |-> [s EXCEPT !.pos = e, !.eofbit = (e = Len(s.buf)),
                                    !.failbit = (v > max)],
                   val |-> Min(v, max)]
ReadNumber(in, old, max) == ExtractNumber(Sentry(in), old, max)

\* in >> n for a size_t; the digits of the model's lines stay far below the
\* largest size_t, so the value is never clamped
ExtractSizeT(s, old) ==
    IF ~good(s) THEN [in |-> s, val |-> old]
    ELSE LET e == ScanIn(s.buf, s.pos, DigitChars)
         IN  IF e = s.pos THEN [in |-> [s EXCEPT !.failbit = TRUE], val |-> 0]
             ELSE [in |-> [s EXCEPT !.pos = e, !.eofbit = (e = Len(s.buf))],
                   val |-> DigitsValue(SubSeq(s.buf, s.pos + 1, e))]
ReadSizeT(in, old) == ExtractSizeT(Sentry(in), old)

\* in >> c for a char: c keeps its old value when the sentry fails
ExtractChar(s, old) ==
    IF ~good(s) THEN [in |-> s, val |-> old]
    ELSE [in |-> [s EXCEPT !.pos = @ + 1], val |-> s.buf[s.pos + 1]]
ReadChar(in, old) == ExtractChar(Sentry(in), old)

\* in.peek()
IstreamPeek(in) ==
    IF ~good(in) THEN [in |-> [in EXCEPT !.failbit = TRUE], c |-> EOF]
    ELSE IF in.pos = Len(in.buf) THEN [in |-> [in EXCEPT !.eofbit = TRUE], c |-> EOF]
    ELSE [in |-> in, c |-> in.buf[in.pos + 1]]

\* in.get()
IstreamGet(in) ==
    IF ~good(in) THEN [in |-> [in EXCEPT !.failbit = TRUE], c |-> EOF]
    ELSE IF in.pos = Len(in.buf)
         THEN [in |-> [in EXCEPT !.eofbit = TRUE, !.failbit = TRUE], c |-> EOF]
    ELSE [in |-> [in EXCEPT !.pos = @ + 1], c |-> in.buf[in.pos + 1]]

\* read_to_slash_or_space(in, out): the stream after it, out with the
\* characters read appended, and whether a slash ended the read
GetToSlashOrSpace(w, out) ==
    IF ~good(w)
    THEN [in |-> [w EXCEPT !.failbit = TRUE], out |-> out, slash |-> FALSE]
    ELSE LET e == ScanNotIn(w.buf, w.pos, SpaceChars \cup {SLASH})
             text == SubSeq(w.buf, w.pos + 1, e)
         IN  IF e = Len(w.buf)
             THEN \* the last get() meets the end: eofbit and failbit,
                  \* and failbit is reset because something was read
                  [in |-> [w EXCEPT !.pos = e, !.eofbit = TRUE, !.failbit = FALSE],
                   out |-> out \o text, slash |-> FALSE]
             ELSE [in |-> [w EXCEPT !.pos = e + 1],
                   out |-> out \o text, slash |-> (w.buf[e + 1] = SLASH)]
read_to_slash_or_space(in, out) == GetToSlashOrSpace(IstreamWs(in), out)

\* boost::algorithm::to_upper in the classic locale
to_upper(s) == [k \in 1..Len(s) |-> IF s[k] \in 97..122 THEN s[k] - 32 ELSE s[k]]

(***************************************************************************)
(* Encoding and the flag codec (aff_data.cxx 84-97, 175-325).              *)
(***************************************************************************)
\* Encoding::operator=: the upper-cased label, UTF8 written UTF-8
Encoding(e) == IF to_upper(e) = Ascii["UTF8"] THEN Ascii["UTF-8"] ELSE to_upper(e)
is_utf8(enc) == enc = Ascii["UTF-8"]

FlagTypes == {"FLAG_SINGLE_CHAR", "FLAG_DOUBLE_CHAR", "FLAG_NUMBER", "FLAG_UTF8"}

\* the number of trail bytes a UTF-8 lead byte announces, -1 for a byte that
\* cannot lead
Utf8TrailLength(lead) ==
    IF lead < 128 THEN 0
    ELSE IF lead < 194 THEN -1
    ELSE IF lead < 224 THEN 1
    ELSE IF lead < 240 THEN 2
    ELSE IF lead <= 244 THEN 3
    ELSE -1

\* the bytes the UTF-8 encoding of code point c takes
Utf8Width(c) == IF c <= 127 THEN 1 ELSE IF c <= 2047 THEN 2 ELSE IF c <= 65535 THEN 3 ELSE 4

\* the value of the first code point of s from offset p with the payload
\* bits of the lead in c and n trail bytes left to read: [ok, c, next]
RECURSIVE Utf8Trail(_, _, _, _)
Utf8Trail(s, p, c, n) ==
    IF n = 0 THEN [ok |-> TRUE, c |-> c, next |-> p]
    ELSE IF p = Len(s) THEN [ok |-> FALSE, c |-> 0, next |-> p]
    ELSE IF s[p + 1] \notin 128..191 THEN [ok |-> FALSE, c |-> 0, next |-> p + 1]
    ELSE Utf8Trail(s, p + 1, c * 64 + (s[p + 1] % 64), n - 1)

\* utf_to_utf from UTF-8 to a 32-bit character type, ill-formed sequences
\* skipped: the code points of s from offset p on
RECURSIVE utf_to_utf(_, _)
utf_to_utf(s, p) ==
    IF p >= Len(s) THEN <<>>
    ELSE LET lead == s[p + 1]
             n == Utf8TrailLength(lead)
         IN  IF n < 0 THEN utf_to_utf(s, p + 1)
             ELSE IF n = 0 THEN <<lead>> \o utf_to_utf(s, p + 1)
             ELSE LET payload == IF n = 1 THEN lead % 32
                                 ELSE IF n = 2 THEN lead % 16 ELSE lead % 8
                      t == Utf8Trail(s, p + 1, payload, n)
                      valid == /\ t.ok
                               /\ t.c <= 1114111
                               /\ t.c \notin 55296..57343
                               /\ Utf8Width(t.c) = n + 1
                  IN  (IF valid THEN <<t.c>> ELSE <<>>) \o utf_to_utf(s, t.next)

\* latin1_to_ucs2: every byte zero-extended to 16 bits
latin1_to_ucs2(s) == [k \in 1..Len(s) |-> s[k] % 256]

\* u32_to_ucs2_skip_non_bmp
u32_to_ucs2_skip_non_bmp(u) == SelectSeq(u, LAMBDA c : c <= 65535)

\* the loop over the pairs without the push of a last single byte
RECURSIVE DoubleCharFlags_pairs_only(_)
DoubleCharFlags_pairs_only(s) ==
    IF Len(s) < 2 THEN <<>>
    ELSE <<s[1] * 256 + s[2]>> \o DoubleCharFlags_pairs_only(SubSeq(s, 3, Len(s)))

\* the loop of the FLAG_DOUBLE_CHAR case over the token s
RECURSIVE DoubleCharFlags(_)
DoubleCharFlags(s) ==
    IF s = <<>> THEN <<>>
    ELSE IF Len(s) = 1 THEN <<s[1]>>
    ELSE <<s[1] * 256 + s[2]>> \o DoubleCharFlags(SubSeq(s, 3, Len(s)))

\* the while loop of the FLAG_NUMBER case
RECURSIVE NumberFlagsLoop(_, _)
\* the body of the loop after in >> flag gave r
NumberFlagsPush(r, ret) ==
    IF r.in.failbit THEN [in |-> r.in, ret |-> ret, exited |-> FALSE]
    ELSE NumberFlagsLoop(r.in, Append(ret, r.val))
NumberFlagsLoop(in, ret) ==
    IF ~good(in) THEN [in |-> in, ret |-> ret, exited |-> FALSE]
    ELSE LET p == IstreamPeek(in)
         IN  IF p.c # COMMA THEN [in |-> p.in, ret |-> ret, exited |-> FALSE]
             ELSE NumberFlagsPush(ReadNumber(IstreamGet(p.in).in, 0, 65535), ret)

\* the case FLAG_NUMBER of decode_flags after the first in >> flag gave r
DecodeNumberFlags(r) ==
    IF r.in.failbit THEN [in |-> r.in, ret |-> <<>>, exited |-> FALSE]
    ELSE NumberFlagsLoop(r.in, <<r.val>>)

\* the other cases of decode_flags after in >> s gave r
DecodeStringFlags(r, t) ==
    IF r.in.failbit
    THEN [in |-> r.in, ret |-> <<>>, exited |-> (t = "FLAG_SINGLE_CHAR")]
    ELSE [in |-> r.in,
          ret |-> CASE t = "FLAG_SINGLE_CHAR" -> latin1_to_ucs2(r.val)
                    [] t = "FLAG_DOUBLE_CHAR" -> DoubleCharFlags(r.val)
                    [] t = "FLAG_UTF8" ->
                           u32_to_ucs2_skip_non_bmp(utf_to_utf(r.val, 0)),
          exited |-> FALSE]

\* decode_flags: the stream after it, the flags decoded, and whether the
\* process has called exit(0)
decode_flags(in, t, enc) ==
    IF t = "FLAG_NUMBER" THEN DecodeNumberFlags(ReadNumber(in, 0, 65535))
    ELSE DecodeStringFlags(ReadString(in, <<>>), t)

\* decode_single_flag: the first flag decoded, 0 when there is none
FirstFlag(d) ==
    [in |-> d.in, f |-> IF d.ret # <<>> THEN d.ret[1] ELSE 0, exited |-> d.exited]
decode_single_flag(in, t, enc) == FirstFlag(decode_flags(in, t, enc))

\* decode_flags_possible_alias
AliasFlags(r, flag_aliases) ==
    [in |-> r.in,
     ret |-> IF ~r.in.failbit /\ 0 < r.val /\ r.val <= Len(flag_aliases)
             THEN flag_aliases[r.val] ELSE <<>>,
     exited |-> FALSE]
decode_flags_possible_alias(in, t, enc, flag_aliases) ==
    IF flag_aliases = <<>> THEN decode_flags(in, t, enc)
    ELSE AliasFlags(ReadSizeT(in, 0), flag_aliases)

\* parse_morhological_fields: the loop while (in >> morph)
RECURSIVE MorphLoop(_, _)
MorphPush(r, vecOut) ==
    IF r.in.failbit THEN [in |-> reset_failbit_istream(r.in), vec |-> vecOut]
    ELSE MorphLoop(r.in, Append(vecOut, r.val))
MorphLoop(in, vecOut) == MorphPush(ReadString(in, <<>>), vecOut)

parse_morhological_fields(in, vecOut) ==
    IF ~good(in) THEN [in |-> in, vec |-> vecOut] ELSE MorphLoop(in, vecOut)

(***************************************************************************)
(* The per-command line parsers of parse_aff (aff_data.cxx 131-166,        *)
(* 358-498).                                                               *)
(***************************************************************************)
\* the keyword with the given characters, "" when there is none
NameOf(command) ==
    IF \E n \in DOMAIN Ascii : Ascii[n] = command
    THEN CHOOSE n \in DOMAIN Ascii : Ascii[n] = command
    ELSE ""

\* the keys of the maps command_strings, command_bools, ... of parse_aff
StringCommands == {"LANG", "IGNORE", "KEY", "TRY", "WORDCHARS"}
BoolCommands ==
    {"COMPLEXPREFIXES", "ONLYMAXDIFF", "NOSPLITSUGS", "SUGSWITHDOTS", "FORBIDWARN",
     "COMPOUNDMORESUFFIXES", "CHECKCOMPOUNDDUP", "CHECKCOMPOUNDREP",
     "CHECKCOMPOUNDCASE", "CHECKCOMPOUNDTRIPLE", "SIMPLIFIEDTRIPLE", "FULLSTRIP",
     "CHECKSHARPS"}
VecStrCommands == {"MAP"}
ShortCommands == {"MAXCPDSUGS", "MAXNGRAMSUGS", "MAXDIFF", "COMPOUNDMIN", "COMPOUNDWORDMAX"}
VecPairCommands == {"REP", "PHONE", "ICONV", "OCONV"}
FlagCommands ==
    {"NOSUGGEST", "WARN", "COMPOUNDFLAG", "COMPOUNDBEGIN", "COMPOUNDLAST",
     "COMPOUNDMIDDLE", "ONLYINCOMPOUND", "COMPOUNDPERMITFLAG", "COMPOUNDFORBIDFLAG",
     "COMPOUNDROOT", "FORCEUCASE", "CIRCUMFIX", "FORBIDDENWORD", "KEEPCASE",
     "NEEDAFFIX", "SUBSTANDARD"}
\* the commands whose lines go through parse_vector_of_T
VecCommands ==
    VecStrCommands \cup VecPairCommands
        \cup {"AF", "AM", "BREAK", "CHECKCOMPOUNDPATTERN", "COMPOUNDRULE"}

\* parse_flag_type
parse_flag_type(in, flag_type) ==
    LET r == ReadString(in, <<>>)
        p == to_upper(r.val)
    IN  [in |-> r.in,
         flag_type |-> IF p = Ascii["LONG"] THEN "FLAG_DOUBLE_CHAR"
                       ELSE IF p = Ascii["NUM"] THEN "FLAG_NUMBER"
                       ELSE IF p = Ascii["UTF-8"] THEN "FLAG_UTF8"
                       ELSE flag_type]

\* the matches of \((..)\)([?*]?) in str from offset p on, as the flags and
\* quantifiers pushed for them
RECURSIVE DoubleCharRule(_, _)
DoubleCharRule(str, p) ==
    IF p + 4 > Len(str) THEN <<>>
    ELSE IF str[p + 1] = 40 /\ str[p + 4] = 41
              /\ str[p + 2] \notin {10, 13} /\ str[p + 3] \notin {10, 13}
    THEN LET fl == str[p + 2] * 256 + str[p + 3]
         IN  IF p + 4 < Len(str) /\ str[p + 5] \in {63, 42}
             THEN <<fl, str[p + 5]>> \o DoubleCharRule(str, p + 5)
             ELSE <<fl>> \o DoubleCharRule(str, p + 4)
    ELSE DoubleCharRule(str, p + 1)

\* the matches of \(([0-9]+)\)([?*]?) in str from offset p on
RECURSIVE NumberRule(_, _)
NumberRule(str, p) ==
    IF p >= Len(str) THEN <<>>
    ELSE LET e == ScanIn(str, p + 1, DigitChars)
         IN  IF str[p + 1] = 40 /\ e > p + 1 /\ e < Len(str) /\ str[e + 1] = 41
             THEN LET fl == DigitsValue(SubSeq(str, p + 2, e))
                      pushed == IF fl <= 65535 THEN <<fl>> ELSE <<>>
                  IN  IF e + 1 < Len(str) /\ str[e + 2] \in {63, 42}
                      THEN pushed \o <<str[e + 2]>> \o NumberRule(str, e + 2)
                      ELSE pushed \o NumberRule(str, e + 1)
             ELSE NumberRule(str, p + 1)

\* parse_compound_rule on an empty rule; r is what in >> str gave
RuleOfString(r, t) ==
    [in |-> r.in,
     ret |-> IF t = "FLAG_DOUBLE_CHAR" THEN DoubleCharRule(r.val, 0)
             ELSE NumberRule(r.val, 0),
     exited |-> FALSE]
parse_compound_rule(in, t, enc) ==
    IF t \in {"FLAG_SINGLE_CHAR", "FLAG_UTF8"}
    THEN decode_flags(in, t, enc)
    ELSE RuleOfString(ReadString(in, <<>>), t)

\* the parseLineFunc of CHECKCOMPOUNDPATTERN on a new Compound_Check_Pattern.
\* FlagAfterSlash: a is what read_to_slash_or_space gave, the result has the
\* flag after its slash, 0 when no slash ended it
FlagAfterSlash(a, t, enc) ==
    IF a.slash THEN decode_single_flag(a.in, t, enc)
    ELSE [in |-> a.in, f |-> 0, exited |-> FALSE]
\* a, f1: first_word_end and its flag; b, f2: second_word_begin and its flag
CheckPatternEnd(a, f1, b, f2) ==
    LET r == ReadString(f2.in, <<>>)
        p == [first_word_end |-> a.out, first_word_flag |-> f1.f,
              second_word_begin |-> b.out, second_word_flag |-> f2.f,
              replacement |-> <<>>]
    IN  IF f1.exited THEN [in |-> f1.in, elem |-> p, exited |-> TRUE]
        ELSE IF f2.exited THEN [in |-> f2.in, elem |-> p, exited |-> TRUE]
        ELSE IF f2.in.failbit THEN [in |-> f2.in, elem |-> p, exited |-> FALSE]
        ELSE [in |-> reset_failbit_istream(r.in),
              elem |-> [p EXCEPT !.replacement = r.val], exited |-> FALSE]
CheckPatternFirst(a, f1, t, enc) ==
    LET b == read_to_slash_or_space(f1.in, <<>>)
    IN  CheckPatternEnd(a, f1, b, FlagAfterSlash(b, t, enc))
parse_compound_check_pattern(in, t, enc) ==
    LET a == read_to_slash_or_space(in, <<>>)
    IN  CheckPatternFirst(a, FlagAfterSlash(a, t, enc), t, enc)

\* the parseLineFunc that parse_aff passes to parse_vector_of_T for the
\* command, applied to a new element: the stream after it, the element, and
\* whether the process has exited.  FlagsElem: the element made of decoded
\* flags, a Flag_Set for AF and the rule itself for COMPOUNDRULE
FlagsElem(d, as_set) ==
    [in |-> d.in, elem |-> IF as_set THEN sort_uniq(d.ret) ELSE d.ret,
     exited |-> d.exited]
ParseLineFunc(command, in, t, enc) ==
    IF command \in VecPairCommands
    THEN LET r1 == ReadString(in, <<>>)
             r2 == ReadString(r1.in, <<>>)
         IN  [in |-> r2.in, elem |-> <<r1.val, r2.val>>, exited |-> FALSE]
    ELSE IF command = "AF" THEN FlagsElem(decode_flags(in, t, enc), TRUE)
    ELSE IF command = "AM"
    THEN LET m == parse_morhological_fields(in, <<>>)
         IN  [in |-> m.in, elem |-> m.vec, exited |-> FALSE]
    ELSE IF command = "CHECKCOMPOUNDPATTERN" THEN parse_compound_check_pattern(in, t, enc)
    ELSE IF command = "COMPOUNDRULE" THEN FlagsElem(parse_compound_rule(in, t, enc), FALSE)
    ELSE \* MAP, BREAK: in >> p
         LET r == ReadString(in, <<>>)
         IN  [in |-> r.in, elem |-> r.val, exited |-> FALSE]

\* counts[command] = a: the size_t is narrowed to int, which keeps the
\* values below 2^31 and wraps the larger ones
NarrowToInt(a) == IF a <= 2147483647 THEN a ELSE (a - 2147483647) - 2147483647 - 2

\* the first line of a command, in >> a having given r: counts[command] = a
StoreCount(r, command, counts, vec) ==
    [in |-> r.in,
     counts |-> counts @@ (command :> NarrowToInt(IF r.in.failbit THEN 0 ELSE r.val)),
     vec |-> vec, exited |-> FALSE]

\* a line of a command with entries left, parseLineFunc having given p
StoreElem(p, command, counts, vec) ==
    [in |-> p.in,
     counts |-> IF p.exited THEN counts ELSE [counts EXCEPT ![command] = @ - 1],
     vec |-> IF p.exited \/ p.in.failbit THEN vec ELSE Append(vec, p.elem),
     exited |-> p.exited]

\* parse_vector_of_T without the test of the remaining count
parse_vector_of_T_uncounted(in, command, counts, vec, t, enc) ==
    IF command \notin DOMAIN counts
    THEN StoreCount(ReadSizeT(in, 0), command, counts, vec)
    ELSE StoreElem(ParseLineFunc(command, in, t, enc), command, counts, vec)

\* parse_vector_of_T: the stream, the counts and the vector after it
parse_vector_of_T(in, command, counts, vec, t, enc) ==
    IF command \notin DOMAIN counts
    THEN StoreCount(ReadSizeT(in, 0), command, counts, vec)
    ELSE IF counts[command] # 0
    THEN StoreElem(ParseLineFunc(command, in, t, enc), command, counts, vec)
    ELSE [in |-> in, counts |-> counts, vec |-> vec, exited |-> FALSE]

\* the header line recorded with the other cross product
AffixCount_inverted(c, key, same) ==
    LET n == ReadSizeT(c.in, 0)
    IN  [same EXCEPT !.in = n.in,
                     !.cmd_affix = @ @@
                         (key :> [first |-> (c.val # 89),
                                  second |-> NarrowToInt(IF n.in.failbit THEN 0
                                                         ELSE n.val)])]

\* parse_affix for the command PFX or SFX on the vector vec (prefixes or
\* suffixes).  cross_char is the value the uninitialized local of that name
\* holds.  The result has the stream, the vector and cmd_affix after the call
\* and whether the process has exited.
\* AffixCount: the first line of a flag, in >> cross_char having given c
AffixCount(c, key, same) ==
    LET n == ReadSizeT(c.in, 0)
    IN  [same EXCEPT !.in = n.in,
                     !.cmd_affix = @ @@
                         (key :> [first |-> (c.val = 89),
                                  second |-> NarrowToInt(IF n.in.failbit THEN 0
                                                         ELSE n.val)])]

\* the entry line stored as it is read: "0" kept, the condition left empty
AffixStore_as_read(s, a, nf, f, key, same) ==
    LET c == ReadString(nf.in, <<>>)
        m == IF c.in.failbit THEN [in |-> reset_failbit_istream(c.in), vec |-> <<>>]
             ELSE parse_morhological_fields(c.in, <<>>)
        elem == [flag |-> f,
                 cross_product |-> same.cmd_affix[key].first,
                 stripping |-> s.val,
                 appending |-> a.out,
                 new_flags |-> sort_uniq(nf.ret),
                 condition |-> c.val,
                 morphological_fields |-> m.vec]
    IN  IF nf.exited THEN [same EXCEPT !.in = nf.in, !.exited = TRUE]
        ELSE IF nf.in.failbit THEN [same EXCEPT !.in = nf.in]
        ELSE [same EXCEPT !.in = m.in,
                          !.vec = Append(@, elem),
                          !.cmd_affix[key].second = @ - 1]

\* an entry line of a flag with entries left.  s: in >> elem.stripping;
\* a: read_to_slash_or_space(in, elem.appending); nf: the flags after the
\* slash; c: in >> elem.condition; m: the morphological fields
AffixStore(s, a, nf, f, key, same) ==
    LET c == ReadString(nf.in, <<>>)
        m == IF c.in.failbit THEN [in |-> reset_failbit_istream(c.in), vec |-> <<>>]
             ELSE parse_morhological_fields(c.in, <<>>)
        elem == [flag |-> f,
                 cross_product |-> same.cmd_affix[key].first,
                 stripping |-> IF s.val = <<48>> THEN <<>> ELSE s.val,
                 appending |-> IF a.out = <<48>> THEN <<>> ELSE a.out,
                 new_flags |-> sort_uniq(nf.ret),
                 condition |-> IF c.val = <<>> THEN <<46>> ELSE c.val,
                 morphological_fields |-> m.vec]
    IN  IF nf.exited THEN [same EXCEPT !.in = nf.in, !.exited = TRUE]
        ELSE IF nf.in.failbit THEN [same EXCEPT !.in = nf.in]
        ELSE [same EXCEPT !.in = m.in,
                          !.vec = Append(@, elem),
                          !.cmd_affix[key].second = @ - 1]
AffixEntry(s, f, key, t, enc, flag_aliases, same) ==
    LET a == read_to_slash_or_space(s.in, <<>>)
    IN  AffixStore(s, a,
                   IF a.slash THEN decode_flags_possible_alias(a.in, t, enc, flag_aliases)
                   ELSE [in |-> a.in, ret |-> <<>>, exited |-> FALSE],
                   f, key, same)

\* parse_affix after decode_single_flag gave d
AffixLine(d, command, t, enc, flag_aliases, vec, cmd_affix, cross_char) ==
    LET f == d.f
        key == <<command, f % 256, (f \div 256) % 256>>
        same == [in |-> d.in, vec |-> vec, cmd_affix |-> cmd_affix, exited |-> d.exited]
    IN  IF d.exited \/ f = 0 THEN same
        ELSE IF key \notin DOMAIN cmd_affix
        THEN AffixCount(ReadChar(d.in, cross_char), key, same)
        ELSE IF cmd_affix[key].second # 0
        THEN AffixEntry(ReadString(d.in, <<>>), f, key, t, enc, flag_aliases, same)
        ELSE same
parse_affix(in, command, t, enc, flag_aliases, vec, cmd_affix, cross_char) ==
    AffixLine(decode_single_flag(in, t, enc), command, t, enc, flag_aliases, vec,
              cmd_affix, cross_char)

(***************************************************************************)
(* Aff_Data::parse_aff (aff_data.cxx 538-836).  The record a holds the     *)
(* locals of parse_aff and the members of the Aff_Data object it fills.    *)
(***************************************************************************)
\* Break_Table and Substr_Replacer members before parse_aff assigns them
EmptyStructures ==
    [input_substr_replacer |-> <<>>, output_substr_replacer |-> <<>>,
     break_table |-> EmptyBreakTable, ignored_chars |-> <<>>,
     prefixes |-> <<>>, suffixes |-> <<>>]

\* the state on entry to the while loop of parse_aff, on a new Aff_Data
AffDataInit ==
    [line_num |-> 0, ss |-> IStream(<<>>), exited |-> FALSE,
     encoding |-> <<>>, flag_type |-> "FLAG_SINGLE_CHAR",
     command_strings |-> [c \in StringCommands |-> <<>>],
     command_bools |-> [c \in BoolCommands |-> FALSE],
     command_shorts |-> [c \in ShortCommands |-> 0],
     command_flag |-> [c \in FlagCommands |-> 0],
     vecs |-> [c \in VecCommands |-> <<>>],
     cmd_with_vec_cnt |-> <<>>, cmd_affix |-> <<>>,
     prefixes |-> <<>>, suffixes |-> <<>>, break_exists |-> FALSE,
     compound_syllable_max |-> 0, compound_syllable_vowels |-> <<>>,
     compound_syllable_num |-> <<>>,
     structures |-> EmptyStructures, wide_structures |-> EmptyStructures,
     locale_aff |-> <<>>]

flag_aliases(a) == a.vecs["AF"]
break_patterns(a) == a.vecs["BREAK"]
input_conversion(a) == a.vecs["ICONV"]
output_conversion(a) == a.vecs["OCONV"]

\* the branch of the loop body for a command that goes through
\* parse_vector_of_T
StoreVector(a, command, r) ==
    [a EXCEPT !.ss = r.in, !.cmd_with_vec_cnt = r.counts,
              !.vecs[command] = r.vec, !.exited = r.exited,
              !.break_exists = (@ \/ command = "BREAK")]
parse_aff_vector(a, command, ss) ==
    StoreVector(a, command,
                parse_vector_of_T(ss, command, a.cmd_with_vec_cnt, a.vecs[command],
                                  a.flag_type, a.encoding))

\* the branch for PFX and SFX
StoreAffixes(a, command, r) ==
    [a EXCEPT !.ss = r.in, !.cmd_affix = r.cmd_affix, !.exited = r.exited,
              !.prefixes = IF command = "PFX" THEN r.vec ELSE @,
              !.suffixes = IF command = "SFX" THEN r.vec ELSE @]
parse_aff_affix(a, command, ss, cross_char) ==
    StoreAffixes(a, command,
                 parse_affix(ss, command, a.flag_type, a.encoding, flag_aliases(a),
                             IF command = "PFX" THEN a.prefixes ELSE a.suffixes,
                             a.cmd_affix, cross_char))

\* the members of a after decode_single_flag or decode_flags gave d
SetFlag(a, command, d) ==
    [a EXCEPT !.ss = d.in, !.exited = d.exited,
              !.command_flag[command] = IF d.exited THEN @ ELSE d.f]
SetSyllableNum(a, d) ==
    [a EXCEPT !.ss = d.in, !.exited = d.exited,
              !.compound_syllable_num = IF d.exited THEN @ ELSE d.ret]
\* the branches for the string settings and SET without the test for a value
\* that is already set
parse_aff_setting_overwriting(a, command, ss) ==
    IF command \in StringCommands
    THEN LET r == ReadString(ss, a.command_strings[command])
         IN  [a EXCEPT !.ss = r.in, !.command_strings[command] = r.val]
    ELSE IF command = "SET"
    THEN LET r == ReadString(ss, <<>>)
         IN  [a EXCEPT !.ss = r.in, !.encoding = Encoding(r.val)]
    ELSE [a EXCEPT !.ss = ss]

\* the branches for the commands that set one member
parse_aff_setting(a, command, ss) ==
    IF command \in StringCommands
    THEN IF a.command_strings[command] = <<>>
         THEN LET r == ReadString(ss, a.command_strings[command])
              IN  [a EXCEPT !.ss = r.in, !.command_strings[command] = r.val]
         ELSE [a EXCEPT !.ss = ss]
    ELSE IF command \in BoolCommands
    THEN [a EXCEPT !.ss = ss, !.command_bools[command] = TRUE]
    ELSE IF command \in ShortCommands
    THEN LET r == ReadNumber(ss, a.command_shorts[command], 32767)
         IN  [a EXCEPT !.ss = r.in, !.command_shorts[command] = r.val]
    ELSE IF command \in FlagCommands
    THEN SetFlag(a, command, decode_single_flag(ss, a.flag_type, a.encoding))
    ELSE IF command = "SET"
    THEN IF a.encoding = <<>>
         THEN LET r == ReadString(ss, <<>>)
              IN  [a EXCEPT !.ss = r.in, !.encoding = Encoding(r.val)]
         ELSE [a EXCEPT !.ss = ss]
    ELSE IF command = "FLAG"
    THEN LET r == parse_flag_type(ss, a.flag_type)
         IN  [a EXCEPT !.ss = r.in, !.flag_type = r.flag_type]
    ELSE IF command = "COMPOUNDSYLLABLE"
    THEN LET n == ReadNumber(ss, a.compound_syllable_max, 32767)
             v == ReadString(n.in, a.compound_syllable_vowels)
         IN  [a EXCEPT !.ss = v.in, !.compound_syllable_max = n.val,
                       !.compound_syllable_vowels = v.val]
    ELSE IF command = "SYLLABLENUM"
    THEN SetSyllableNum(a, decode_flags(ss, a.flag_type, a.encoding))
    ELSE [a EXCEPT !.ss = ss]

\* the body of the while loop for one line
parse_aff_line(a, line, cross_char) ==
    LET b == [a EXCEPT !.line_num = @ + 1]
        ss0 == IstreamWs(IStream(line))
    IN  IF ss0.eofbit \/ IstreamPeek(ss0).c = 35
        THEN [b EXCEPT !.ss = ss0]
        ELSE LET c == ReadString(ss0, <<>>)
                 command == NameOf(to_upper(c.val))
                 ss == IstreamWs(c.in)
             IN  IF command \in {"PFX", "SFX"} THEN parse_aff_affix(b, command, ss, cross_char)
                 ELSE IF command \in VecCommands THEN parse_aff_vector(b, command, ss)
                 ELSE parse_aff_setting(b, command, ss)

\* the default BREAK definition
DefaultBreakPatterns == <<<<HYPHEN>>, <<CARET, HYPHEN>>, <<HYPHEN, DOLAR>>>>

\* get_locale_name(lang, enc) with an empty filename
get_locale_name(lang, enc) ==
    (IF lang = <<>> THEN Ascii["en_US"] ELSE lang) \o <<46>>
        \o (IF enc = <<>> THEN Ascii["ISO8859-1"] ELSE enc)

\* utf_to_utf<wchar_t>(x)
u_to_u(x) == utf_to_utf(x, 0)
u_to_u_pair(x) == <<u_to_u(x[1]), u_to_u(x[2])>>

\* the arguments of structures.prefixes.emplace / suffixes.emplace for the
\* entries of vec, with the strings converted when wide is true
EmplaceAffixes(vec, wide) ==
    [k \in 1..Len(vec) |->
        [flag |-> vec[k].flag, cross_product |-> vec[k].cross_product,
         stripping |-> IF wide THEN u_to_u(vec[k].stripping) ELSE vec[k].stripping,
         appending |-> IF wide THEN u_to_u(vec[k].appending) ELSE vec[k].appending,
         new_flags |-> vec[k].new_flags,
         condition |-> IF wide THEN u_to_u(vec[k].condition) ELSE vec[k].condition]]

\* Prefix_Entry::Prefix_Entry, Suffix_Entry::Suffix_Entry on the arguments
\* x of emplace: the entry, its condition the source of the regex built
Prefix_Entry(x) == [x EXCEPT !.condition = <<CARET>> \o @]
Suffix_Entry(x) == [x EXCEPT !.condition = Append(@, DOLAR)]

\* the Structures parse_aff may fill from the temporary data, the strings
\* converted to the wide representation when wide is true
FillStructures(a, patterns, wide) ==
    LET iconv == IF wide THEN [k \in 1..Len(input_conversion(a)) |->
                                  u_to_u_pair(input_conversion(a)[k])]
                 ELSE input_conversion(a)
        oconv == IF wide THEN [k \in 1..Len(output_conversion(a)) |->
                                  u_to_u_pair(output_conversion(a)[k])]
                 ELSE output_conversion(a)
        break_pat == IF wide THEN [k \in 1..Len(patterns) |-> u_to_u(patterns[k])]
                     ELSE patterns
        ignore_chars == a.command_strings["IGNORE"]
    IN  {[input_substr_replacer |-> i, output_substr_replacer |-> o,
          break_table |-> b,
          ignored_chars |-> IF wide THEN u_to_u(ignore_chars) ELSE ignore_chars,
          prefixes |-> [k \in 1..Len(a.prefixes) |->
                           Prefix_Entry(EmplaceAffixes(a.prefixes, wide)[k])],
          suffixes |-> [k \in 1..Len(a.suffixes) |->
                           Suffix_Entry(EmplaceAffixes(a.suffixes, wide)[k])]]
         : i \in rep_sort_uniq(iconv), o \in rep_sort_uniq(oconv),
           b \in order_entries(break_pat)}

\* the part of parse_aff after the while loop with the default BREAK
\* definition added whether or not a BREAK line was seen
parse_aff_finish_always_default(a) ==
    LET patterns == break_patterns(a) \o DefaultBreakPatterns
        b == [a EXCEPT !.vecs["BREAK"] = patterns,
                       !.locale_aff =
                           get_locale_name(a.command_strings["LANG"], a.encoding)]
    IN  {IF is_utf8(a.encoding) THEN [b EXCEPT !.wide_structures = s]
         ELSE [b EXCEPT !.structures = s]
         : s \in FillStructures(a, patterns, is_utf8(a.encoding))}

\* the part of parse_aff after the while loop: the states it may leave
parse_aff_finish(a) ==
    LET patterns == IF ~a.break_exists THEN break_patterns(a) \o DefaultBreakPatterns
                    ELSE break_patterns(a)
        b == [a EXCEPT !.vecs["BREAK"] = patterns,
                       !.locale_aff =
                           get_locale_name(a.command_strings["LANG"], a.encoding)]
    IN  {IF is_utf8(a.encoding) THEN [b EXCEPT !.wide_structures = s]
         ELSE [b EXCEPT !.structures = s]
         : s \in FillStructures(a, patterns, is_utf8(a.encoding))}

\* the lines joined into the content of a stream, each ended by '\n'
RECURSIVE JoinLines(_)
JoinLines(ls) ==
    IF ls = <<>> THEN <<>> ELSE Head(ls) \o <<NEWLINE>> \o JoinLines(Tail(ls))

\* the affix streams with at most MaxLines lines out of Lines: with or
\* without a BOM, the last line ended by '\n' or by the end of the stream
AffFiles(Lines) ==
    {head \o body : head \in {<<>>, BOM},
                    body \in UNION {{JoinLines(ls), PopBack(JoinLines(ls))}
                                    : ls \in SeqsUpTo(Lines, MaxLines)}}

\* parse_aff up to the while loop
AffStart ==
    /\ aff_pc = "start"
    /\ aff_in' = strip_bom(aff_in)
    /\ aff' = AffDataInit
    /\ aff_pc' = "loop"
    /\ UNCHANGED aff_ret
    /\ UNCHANGED notAff

\* one turn of the while loop: getline gives a line, the body parses it
AffLine ==
    /\ aff_pc = "loop"
    /\ LET g == getline(aff_in, <<>>)
       IN  /\ ~g.in.failbit
           /\ aff_in' = g.in
           /\ \E cross_char \in {89, 0} : aff' = parse_aff_line(aff, g.line, cross_char)
    /\ aff_pc' = IF aff'.exited THEN "exited" ELSE "loop"
    /\ UNCHANGED aff_ret
    /\ UNCHANGED notAff

\* getline fails: the loop ends and parse_aff fills the structures
AffFinish ==
    /\ aff_pc = "loop"
    /\ LET g == getline(aff_in, <<>>)
       IN  /\ g.in.failbit
           /\ aff_in' = g.in
           /\ aff_ret' = g.in.eofbit
    /\ aff' \in parse_aff_finish(aff)
    /\ aff_pc' = "done"
    /\ UNCHANGED notAff

\* no affix stream is being parsed
AffIdle ==
    /\ aff_pc = "idle"
    /\ aff_in = IStream(<<>>)
    /\ aff = AffDataInit
    /\ aff_ret = FALSE

AffNext ==
    \/ AffStart
    \/ AffLine
    \/ AffFinish

\* lines of the counted commands, in groups that a stream draws its lines
\* from: counts, entries, entries in lower case, lines that are neither
CountedLines ==
    {{<<82, 69, 80, 32, 49>>,  \* "REP 1"
      <<82, 69, 80, 32, 97, 32, 98>>,  \* "REP a b"
      <<114, 101, 112, 32, 99, 32, 100>>,  \* "rep c d"
      <<82, 69, 80, 32, 120>>,  \* "REP x"
      <<80, 72, 79, 78, 69, 32, 49>>,  \* "PHONE 1"
      <<80, 72, 79, 78, 69, 32, 97, 32, 98>>},  \* "PHONE a b"
     {<<73, 67, 79, 78, 86, 32, 49>>,  \* "ICONV 1"
      <<73, 67, 79, 78, 86, 32, 97, 32, 98>>,  \* "ICONV a b"
      <<79, 67, 79, 78, 86, 32, 49>>,  \* "OCONV 1"
      <<79, 67, 79, 78, 86, 32, 97, 32, 98>>,  \* "OCONV a b"
      <<77, 65, 80, 32, 49>>,  \* "MAP 1"
      <<77, 65, 80, 32, 97, 98>>},  \* "MAP ab"
     {<<65, 70, 32, 49>>,  \* "AF 1"
      <<65, 70, 32, 66, 65>>,  \* "AF BA"
      <<65, 77, 32, 49>>,  \* "AM 1"
      <<65, 77, 32, 120, 32, 121>>,  \* "AM x y"
      <<83, 70, 88, 32, 65, 32, 78, 32, 49>>,  \* "SFX A N 1"
      <<83, 70, 88, 32, 65, 32, 97, 32, 48, 47, 66, 32, 46>>},  \* "SFX A a 0/B ."
     {<<80, 70, 88, 32, 65, 32, 89, 32, 49>>,  \* "PFX A Y 1"
      <<80, 70, 88, 32, 65, 32, 48, 32, 97, 32, 46>>,  \* "PFX A 0 a ."
      <<80, 70, 88, 32, 65, 32, 98>>,  \* "PFX A b"
      <<83, 70, 88, 32, 65, 32, 78, 32, 49>>,  \* "SFX A N 1"
      <<83, 70, 88, 32, 65, 32, 97, 32, 48, 47, 66, 32, 46>>},  \* "SFX A a 0/B ."
     {<<67, 72, 69, 67, 75, 67, 79, 77, 80, 79, 85, 78, 68, 80, 65, 84, 84, 69, 82, 78, 32, 49>>,  \* "CHECKCOMPOUNDPATTERN 1"
      <<67, 72, 69, 67, 75, 67, 79, 77, 80, 79, 85, 78, 68, 80, 65, 84, 84, 69, 82, 78, 32, 97, 47, 65, 32, 98, 32, 99>>,  \* "CHECKCOMPOUNDPATTERN a/A b c"
      <<67, 79, 77, 80, 79, 85, 78, 68, 82, 85, 76, 69, 32, 49>>,  \* "COMPOUNDRULE 1"
      <<67, 79, 77, 80, 79, 85, 78, 68, 82, 85, 76, 69, 32, 65, 42, 66>>,  \* "COMPOUNDRULE A*B"
      <<66, 82, 69, 65, 75, 32, 49>>,  \* "BREAK 1"
      <<66, 82, 69, 65, 75, 32, 45>>}}  \* "BREAK -"

\* BREAK lines with and without a count or a pattern, and lines of other kinds
BreakLines ==
    {<<66, 82, 69, 65, 75, 32, 49>>,  \* "BREAK 1"
     <<66, 82, 69, 65, 75, 32, 50>>,  \* "BREAK 2"
     <<66, 82, 69, 65, 75, 32, 45>>,  \* "BREAK -"
     <<66, 82, 69, 65, 75, 32, 94, 120>>,  \* "BREAK ^x"
     <<66, 82, 69, 65, 75>>,  \* "BREAK"
     <<98, 114, 101, 97, 107, 32, 121, 36>>,  \* "break y$"
     <<83, 69, 84, 32, 85, 84, 70, 45, 56>>,  \* "SET UTF-8"
     <<84, 82, 89, 32, 97>>,  \* "TRY a"
     <<35, 32, 66, 82, 69, 65, 75, 32, 49>>,  \* "# BREAK 1"
     <<>>}  \* ""

\* lines of the string settings and of SET, an empty line and a comment
SettingLines ==
    {<<76, 65, 78, 71, 32, 101, 110>>,  \* "LANG en"
     <<76, 65, 78, 71, 32, 100, 101>>,  \* "LANG de"
     <<76, 65, 78, 71>>,  \* "LANG"
     <<73, 71, 78, 79, 82, 69, 32, 97>>,  \* "IGNORE a"
     <<73, 71, 78, 79, 82, 69, 32, 98>>,  \* "IGNORE b"
     <<75, 69, 89, 32, 113>>,  \* "KEY q"
     <<107, 101, 121, 32, 119>>,  \* "key w"
     <<84, 82, 89, 32, 97>>,  \* "TRY a"
     <<84, 82, 89, 32, 98>>,  \* "TRY b"
     <<87, 79, 82, 68, 67, 72, 65, 82, 83, 32, 120>>,  \* "WORDCHARS x"
     <<87, 79, 82, 68, 67, 72, 65, 82, 83, 32, 121>>,  \* "WORDCHARS y"
     <<83, 69, 84, 32, 117, 116, 102, 56>>,  \* "SET utf8"
     <<83, 69, 84, 32, 73, 83, 79, 56, 56, 53, 57, 45, 49>>,  \* "SET ISO8859-1"
     <<83, 69, 84>>,  \* "SET"
     <<>>,  \* ""
     <<35, 32, 83, 69, 84, 32, 120>>}  \* "# SET x"

\* lines of the flag and integer settings and of FLAG, with and without a
\* value that parses, a string setting, a counted command without its count
\* and a comment
FlagLines ==
    {<<78, 79, 83, 85, 71, 71, 69, 83, 84, 32, 65>>,  \* "NOSUGGEST A"
     <<78, 79, 83, 85, 71, 71, 69, 83, 84, 32, 66>>,  \* "NOSUGGEST B"
     <<78, 79, 83, 85, 71, 71, 69, 83, 84>>,  \* "NOSUGGEST"
     <<87, 65, 82, 78, 32, 49, 50>>,  \* "WARN 12"
     <<77, 65, 88, 68, 73, 70, 70, 32, 53>>,  \* "MAXDIFF 5"
     <<77, 65, 88, 68, 73, 70, 70, 32, 55>>,  \* "MAXDIFF 7"
     <<77, 65, 88, 68, 73, 70, 70, 32, 120>>,  \* "MAXDIFF x"
     <<67, 79, 77, 80, 79, 85, 78, 68, 77, 73, 78, 32, 50>>,  \* "COMPOUNDMIN 2"
     <<70, 76, 65, 71, 32, 108, 111, 110, 103>>,  \* "FLAG long"
     <<70, 76, 65, 71, 32, 78, 85, 77>>,  \* "FLAG NUM"
     <<70, 76, 65, 71, 32, 85, 84, 70, 45, 56>>,  \* "FLAG UTF-8"
     <<70, 76, 65, 71, 32, 120>>,  \* "FLAG x"
     <<70, 76, 65, 71>>,  \* "FLAG"
     <<84, 82, 89, 32, 97>>,  \* "TRY a"
     <<82, 69, 80>>,  \* "REP"
     <<35, 32, 70, 76, 65, 71, 32, 110, 117, 109>>}  \* "# FLAG num"

\* lines of ICONV and OCONV: counts, pairs with the same pattern and with
\* another one
ConvLines ==
    {<<73, 67, 79, 78, 86, 32, 50>>,  \* "ICONV 2"
     <<73, 67, 79, 78, 86, 32, 97, 32, 98>>,  \* "ICONV a b"
     <<73, 67, 79, 78, 86, 32, 97, 32, 99>>,  \* "ICONV a c"
     <<73, 67, 79, 78, 86, 32, 98, 32, 99>>,  \* "ICONV b c"
     <<79, 67, 79, 78, 86, 32, 50>>,  \* "OCONV 2"
     <<79, 67, 79, 78, 86, 32, 97, 32, 98>>,  \* "OCONV a b"
     <<79, 67, 79, 78, 86, 32, 97, 32, 99>>,  \* "OCONV a c"
     <<73, 67, 79, 78, 86, 32, 49>>}  \* "ICONV 1"

\* lines of PFX and SFX: headers, entries with a strip or an append of "0",
\* with and without a condition, and a line that makes the stream UTF-8
AffixBodyLines ==
    {<<80, 70, 88, 32, 65, 32, 89, 32, 50>>,  \* "PFX A Y 2"
     <<80, 70, 88, 32, 65, 32, 48, 32, 97>>,  \* "PFX A 0 a"
     <<80, 70, 88, 32, 65, 32, 48, 32, 48, 32, 46>>,  \* "PFX A 0 0 ."
     <<80, 70, 88, 32, 65, 32, 98, 32, 48, 47, 66, 32, 99>>,  \* "PFX A b 0/B c"
     <<80, 70, 88, 32, 65, 32, 48, 48, 32, 48, 97>>,  \* "PFX A 00 0a"
     <<83, 70, 88, 32, 65, 32, 78, 32, 50>>,  \* "SFX A N 2"
     <<83, 70, 88, 32, 65, 32, 48, 32, 97>>,  \* "SFX A 0 a"
     <<83, 70, 88, 32, 65, 32, 97, 32, 48, 32, 98>>,  \* "SFX A a 0 b"
     <<83, 70, 88, 32, 65, 32, 48>>,  \* "SFX A 0"
     <<83, 69, 84, 32, 85, 84, 70, 45, 56>>}  \* "SET UTF-8"

\* lines of PFX and SFX: headers with the cross product Y and N for the same
\* flag, headers without a count, and entries
CrossLines ==
    {<<80, 70, 88, 32, 65, 32, 89, 32, 50>>,  \* "PFX A Y 2"
     <<80, 70, 88, 32, 65, 32, 78, 32, 50>>,  \* "PFX A N 2"
     <<80, 70, 88, 32, 65, 32, 48, 32, 97>>,  \* "PFX A 0 a"
     <<80, 70, 88, 32, 65, 32, 48, 32, 98>>,  \* "PFX A 0 b"
     <<80, 70, 88, 32, 65, 32, 89>>,  \* "PFX A Y"
     <<80, 70, 88, 32, 65>>,  \* "PFX A"
     <<83, 70, 88, 32, 65, 32, 78, 32, 50>>,  \* "SFX A N 2"
     <<83, 70, 88, 32, 65, 32, 89, 32, 49>>,  \* "SFX A Y 1"
     <<83, 70, 88, 32, 65, 32, 48, 32, 97>>,  \* "SFX A 0 a"
     <<80, 70, 88, 32, 66, 32, 78, 32, 49>>}  \* "PFX B N 1"

(***************************************************************************)
(* parse_dic and the Dic Map (aff_data.cxx 844-993).                       *)
(***************************************************************************)
BACKSLASH == 92
TAB == 9

\* istream::ignore(n): a stream that is not good only gets failbit; else n
\* characters are extracted, and eofbit is set when the end comes before
\* the n-th
IstreamIgnore(in, n) ==
    IF ~good(in) THEN [in EXCEPT !.failbit = TRUE, !.gcount = 0]
    ELSE LET k == IF n < 0 THEN 0 ELSE Min(n, Len(in.buf) - in.pos)
         IN  [in EXCEPT !.pos = @ + k, !.gcount = k, !.eofbit = (k < n)]

\* string::find(c, from): the offset of the first c at or after from
CharFind(s, c, from) ==
    LET hits == {p \in from..(Len(s) - 1) : s[p + 1] = c}
    IN  IF hits = {} THEN npos ELSE CHOOSE p \in hits : \A q \in hits : p <= q

\* string::find_first_not_of(c, from)
StrFindFirstNotOf(s, c, from) ==
    LET hits == {p \in from..(Len(s) - 1) : s[p + 1] # c}
    IN  IF hits = {} THEN npos ELSE CHOOSE p \in hits : \A q \in hits : p <= q

\* the loop for (;;) of dic_find_end_of_word_heuristics from the offset a
\* a: what line.find(' ', a) gave
RECURSIVE HeuristicsLoop(_, _)
HeuristicsLoop(line, a) ==
    LET b == StrFindFirstNotOf(line, 32, a)
    IN  IF a = npos \/ b = npos THEN npos
        ELSE IF b > Len(line) - 3 THEN npos
        ELSE IF /\ line[b + 1] \in 97..122 /\ line[b + 2] \in 97..122
                /\ line[b + 3] = 58
        THEN a
        ELSE HeuristicsLoop(line, CharFind(line, 32, b))

\* dic_find_end_of_word_heuristics: the offset of the blanks before the
\* first morphological field [a-z][a-z]:, npos when the line has none
dic_find_end_of_word_heuristics(line) ==
    IF Len(line) < 4 THEN npos ELSE HeuristicsLoop(line, CharFind(line, 32, 0))

\* the first slash whether or not a '\' stands before it
SlashLoop_first_slash(line, slash_pos) == CharFind(line, SLASH, slash_pos)

\* the loop of parse_dic over the slashes: the offset of the first '/' that
\* is the first character or has no '\' before it
\* from the offset slash_pos on
RECURSIVE SlashLoop(_, _)
SlashLoop(line, slash_pos) ==
    LET found == CharFind(line, SLASH, slash_pos)
    IN  IF found = npos THEN npos
        ELSE IF found = 0 THEN 0
        ELSE IF line[found] # BACKSLASH THEN found
        ELSE SlashLoop(line, found + 1)

\* string::assign(line, 0, n)
StrAssign(line, n) == IF n = npos THEN line ELSE SubSeq(line, 1, Min(n, Len(line)))

\* classify_casing over the ASCII letters, with the classes the
\* specification names: no capital letter, no small letter, a capital first
\* letter with small letters, a small first letter with capital letters
classify_casing(s) ==
    LET upper == {k \in 1..Len(s) : s[k] \in 65..90}
        lower == {k \in 1..Len(s) : s[k] \in 97..122}
    IN  IF upper = {} THEN "ALL_LOWER"
        ELSE IF lower = {} THEN "ALL_CAPITAL"
        ELSE IF 1 \in upper THEN "PASCAL"
        ELSE "CAMEL"

\* what the body of the loop of parse_dic takes from a line: the word, the
\* flags, whether ss has failed and whether the process has left
\* a line with a slash at slash_pos, decode_flags_possible_alias having
\* given d
DicSlashWord(line, slash_pos, d) ==
    [word |-> StrAssign(line, slash_pos), flags |-> d.ret,
     fail |-> d.in.failbit, exited |-> d.exited]
DicSlashLine(line, slash_pos, a) ==
    DicSlashWord(line, slash_pos,
                 decode_flags_possible_alias(IstreamIgnore(IStream(line), slash_pos + 1),
                                             a.flag_type, a.encoding, flag_aliases(a)))
DicPlainLine(line) ==
    [word |-> IF CharFind(line, TAB, 0) # npos
              THEN \* getline(ss, word, '\t')
                   StrAssign(line, CharFind(line, TAB, 0))
              ELSE StrAssign(line, dic_find_end_of_word_heuristics(line)),
     flags |-> <<>>, fail |-> FALSE, exited |-> FALSE]
DicParseLine(line, slash_pos, a) ==
    IF slash_pos # npos THEN DicSlashLine(line, slash_pos, a) ELSE DicPlainLine(line)

\* the entries of the Dic Map w under the key that hold the flag of the
\* hidden homonym: find_if over words.equal_range(key)
HiddenHomonyms(w, key) ==
    {k \in 1..Len(w) : /\ w[k].key = key
                        /\ (\E j \in 1..Len(w[k].flags) : w[k].flags[j] = HIDDEN_HOMONYM_FLAG)}

\* words.emplace(word, flags): a multimap takes every pair
words_emplace(w, word, fl) == Append(w, [key |-> word, flags |-> sort_uniq(fl)])

\* the switch without the hidden homonym of a word in PASCAL or CAMEL case
InsertWord_no_homonym(w, word, fl) ==
    IF classify_casing(word) = "ALL_CAPITAL"
    THEN IF HiddenHomonyms(w, word) # {}
         THEN {[w EXCEPT ![h].flags = sort_uniq(fl)] : h \in HiddenHomonyms(w, word)}
         ELSE {words_emplace(w, word, fl)}
    ELSE {words_emplace(w, word, fl)}

\* the switch with the case ALL_CAPITAL treated as the default case
InsertWord_always_emplace(w, word, fl) ==
    IF classify_casing(word) \in {"PASCAL", "CAMEL"}
    THEN IF HiddenHomonyms(w, to_upper(word)) = {}
         THEN {words_emplace(words_emplace(w, word, fl), to_upper(word),
                             Append(fl, HIDDEN_HOMONYM_FLAG))}
         ELSE {words_emplace(w, word, fl)}
    ELSE {words_emplace(w, word, fl)}

\* the switch with the hidden homonym added whether or not there is one
InsertWord_always_homonym(w, word, fl) ==
    IF classify_casing(word) = "ALL_CAPITAL"
    THEN IF HiddenHomonyms(w, word) # {}
         THEN {[w EXCEPT ![h].flags = sort_uniq(fl)] : h \in HiddenHomonyms(w, word)}
         ELSE {words_emplace(w, word, fl)}
    ELSE IF classify_casing(word) \in {"PASCAL", "CAMEL"}
    THEN {words_emplace(words_emplace(w, word, fl), to_upper(word),
                        Append(fl, HIDDEN_HOMONYM_FLAG))}
    ELSE {words_emplace(w, word, fl)}

\* the switch of parse_dic over the casing of the word: the Dic Maps it can
\* leave (the range of a key has no specified order, so find_if can meet
\* any of the entries with the hidden homonym flag first)
InsertWord(w, word, fl) ==
    IF classify_casing(word) = "ALL_CAPITAL"
    THEN IF HiddenHomonyms(w, word) # {}
         THEN {[w EXCEPT ![h].flags = sort_uniq(fl)] : h \in HiddenHomonyms(w, word)}
         ELSE {words_emplace(w, word, fl)}
    ELSE IF classify_casing(word) \in {"PASCAL", "CAMEL"}
    THEN IF HiddenHomonyms(w, to_upper(word)) = {}
         THEN {words_emplace(words_emplace(w, word, fl), to_upper(word),
                             Append(fl, HIDDEN_HOMONYM_FLAG))}
         ELSE {words_emplace(w, word, fl)}
    ELSE {words_emplace(w, word, fl)}

\* parse_dic up to the while loop without the return on a first line that
\* has no count
parse_dic_begin_any_count(in) ==
    [in |-> getline(strip_bom(in), <<>>).in,
     line |-> getline(strip_bom(in), <<>>).line,
     returns |-> getline(strip_bom(in), <<>>).in.failbit]

\* parse_dic up to the while loop: the stream and the line after the first
\* getline, and whether parse_dic returns (getline or ss >> approximate_size
\* has failed)
parse_dic_begin(in) ==
    [in |-> getline(strip_bom(in), <<>>).in,
     line |-> getline(strip_bom(in), <<>>).line,
     returns |-> \/ getline(strip_bom(in), <<>>).in.failbit
                 \/ ReadSizeT(IStream(getline(strip_bom(in), <<>>).line), 0).in.failbit]

\* the streams parse_dic is given: a first line, then at most MaxDicLines
\* lines out of Lines, with or without a BOM, the last line ended by '\n'
\* or by the end of the stream; and the stream without any line
DicFiles(Firsts, Lines) ==
    {head \o body : head \in {<<>>, BOM},
                    body \in {<<>>} \cup
                        UNION {{JoinLines(<<f>> \o ls), PopBack(JoinLines(<<f>> \o ls))}
                               : f \in Firsts, ls \in SeqsUpTo(Lines, MaxDicLines)}}

\* the first lines of the dictionary streams
DicFirstLines ==
    {<<50>>,  \* "2"
     <<120>>,  \* "x"
     <<>>}  \* ""

\* the lines of the dictionary streams, in groups that a stream draws its
\* lines from: words in the casings, flags and alias numbers, the forms of
\* a line, flag tokens of one to four bytes
DicLines ==
    {{<<97, 66, 47, 65>>,  \* "aB/A"
      <<65, 66, 47, 66>>,  \* "AB/B"
      <<65, 66>>,  \* "AB"
      <<97, 66, 47, 66>>,  \* "aB/B"
      <<65, 66, 99, 47, 65>>,  \* "ABc/A"
      <<65, 66, 67, 47, 65>>,  \* "ABC/A"
      <<97, 98, 47, 65>>},  \* "ab/A"
     {<<97, 47, 49>>,  \* "a/1"
      <<97, 47, 50>>,  \* "a/2"
      <<97, 47, 51>>,  \* "a/3"
      <<97, 47, 48>>,  \* "a/0"
      <<97, 47, 120>>,  \* "a/x"
      <<97, 47, 65>>,  \* "a/A"
      <<98, 47>>},  \* "b/"
     {<<97, 92, 47, 98, 47, 65>>,  \* "a\/b/A"
      <<99, 9, 112, 111, 58, 120>>,  \* "c<TAB>po:x"
      <<100, 32, 112, 111, 58, 120>>,  \* "d po:x"
      <<101, 32, 102>>,  \* "e f"
      <<47, 65>>,  \* "/A"
      <<97, 47, 65>>,  \* "a/A"
      <<97, 47, 98, 47, 65>>,  \* "a/b/A"
      <<97, 92, 47, 98>>,  \* "a\/b"
      <<>>},  \* ""
     {<<97, 47, 97, 98, 99>>,  \* "a/abc"
      <<97, 47, 97, 98>>,  \* "a/ab"
      <<97, 47, 97>>,  \* "a/a"
      <<97, 47, 97, 98, 99, 100>>,  \* "a/abcd"
      <<97, 47, 200, 97, 201>>,  \* "a/" and the bytes C8 61 C9
      <<98, 47>>}}  \* "b/"

\* the affix streams parsed before the dictionary: none of the commands,
\* two flag aliases, the Flag Type NUMBER with two flag aliases, the Flag
\* Type DOUBLE_CHAR
DicAffFiles ==
    {<<>>,
     <<65, 70, 32, 50, 10, 65, 70, 32, 65, 10, 65, 70, 32, 67, 66>>,  \* "AF 2\nAF A\nAF CB"
     <<70, 76, 65, 71, 32, 110, 117, 109, 10, 65, 70, 32, 50, 10, 65, 70, 32, 55, 10,
       65, 70, 32, 57, 44, 56>>,  \* "FLAG num\nAF 2\nAF 7\nAF 9,8"
     <<70, 76, 65, 71, 32, 108, 111, 110, 103>>}  \* "FLAG long"

\* parse_dic is called on a stream after parse_aff: it runs up to the while
\* loop
DicStart ==
    /\ dic_pc = "idle"
    /\ aff_pc = "done"
    /\ \E bytes \in UNION {DicFiles(DicFirstLines, Lines) : Lines \in DicLines} :
          /\ dic_in' = parse_dic_begin(IStream(bytes)).in
          /\ dic_line' = parse_dic_begin(IStream(bytes)).line
          /\ dic_pc' = IF parse_dic_begin(IStream(bytes)).returns THEN "done" ELSE "loop"
    /\ dic_line_number' = 1
    /\ dic_ret' = FALSE
    /\ UNCHANGED <<dic_word, dic_flags, words>>
    /\ UNCHANGED notDic

\* the body of the while loop after getline gave g and the line gave p
DicStore(g, p) ==
    /\ dic_in' = g.in
    /\ dic_line' = g.line
    /\ dic_line_number' = dic_line_number + 1
    /\ dic_word' = p.word
    /\ dic_flags' = p.flags
    /\ dic_pc' = IF p.exited THEN "exited" ELSE "loop"
    /\ IF p.exited \/ p.fail \/ p.word = <<>> THEN words' = words
       ELSE words' \in InsertWord(words, p.word, p.flags)

\* one turn of the while loop: getline gives a line, the body parses it
DicLine ==
    /\ dic_pc = "loop"
    /\ ~getline(dic_in, dic_line).in.failbit
    /\ DicStore(getline(dic_in, dic_line),
                DicParseLine(getline(dic_in, dic_line).line,
                             SlashLoop(getline(dic_in, dic_line).line, 0), aff))
    /\ UNCHANGED dic_ret
    /\ UNCHANGED notDic

\* getline fails: the loop ends and parse_dic returns in.eof()
DicFinish ==
    /\ dic_pc = "loop"
    /\ getline(dic_in, dic_line).in.failbit
    /\ dic_in' = getline(dic_in, dic_line).in
    /\ dic_line' = getline(dic_in, dic_line).line
    /\ dic_ret' = getline(dic_in, dic_line).in.eofbit
    /\ dic_pc' = "done"
    /\ UNCHANGED <<dic_line_number, dic_word, dic_flags, words>>
    /\ UNCHANGED notDic

\* parse_dic has not been called
DicIdle ==
    /\ dic_pc = "idle"
    /\ dic_in = IStream(<<>>)
    /\ dic_line_number = 0
    /\ dic_line = <<>>
    /\ dic_word = <<>>
    /\ dic_flags = <<>>
    /\ words = <<>>
    /\ dic_ret = FALSE

DicNext ==
    \/ AffStart
    \/ AffLine
    \/ AffFinish
    \/ DicStart
    \/ DicLine
    \/ DicFinish

(***************************************************************************)
(* Specifications.                                                         *)
(***************************************************************************)
InitAll ==
    FlagSetInit /\ ReplacerInit /\ BreakInit /\ AffixInit /\ BomIdle /\ AffIdle /\ DicIdle

SpecFlagSet == InitAll /\ [][FlagSetNext]_vars

SpecReplacer == InitAll /\ [][ReplacerNext]_vars

\* a Substr_Replacer constructed from a list of at most MaxFairPairs pairs
InitReplacerBuilt ==
    /\ FlagSetInit /\ BreakInit /\ AffixInit /\ BomIdle /\ AffIdle /\ DicIdle
    /\ table \in UNION {rep_sort_uniq(v) : v \in SeqsUpTo(Keys \X Repls, MaxFairPairs)}
    /\ rep_pc = "idle"
    /\ rep_s = <<>>
    /\ rep_i = 0

ReplaceNext ==
    \/ ReplaceCall
    \/ ReplaceStep
    \/ ReplaceReturn

\* replace runs on: an iteration or the return that is possible is taken
SpecReplacerFair ==
    InitReplacerBuilt /\ [][ReplaceNext]_vars /\ WF_vars(ReplaceStep) /\ WF_vars(ReplaceReturn)

SpecBreak == InitAll /\ [][BreakNext]_vars

SpecAffix == InitAll /\ [][AffixNext]_vars

InitBom ==
    FlagSetInit /\ ReplacerInit /\ BreakInit /\ AffixInit /\ BomInit /\ AffIdle /\ DicIdle

SpecBom == InitBom /\ [][BomNext]_vars

\* parse_aff on a new Aff_Data and one of the given streams
AffInit(Files) ==
    /\ FlagSetInit /\ ReplacerInit /\ BreakInit /\ AffixInit /\ BomIdle /\ DicIdle
    /\ aff_pc = "start"
    /\ aff_in \in {IStream(bytes) : bytes \in Files}
    /\ aff = AffDataInit
    /\ aff_ret = FALSE

SpecAffCounted == AffInit(UNION {AffFiles(Lines) : Lines \in CountedLines}) /\ [][AffNext]_vars

SpecAffSettings == AffInit(AffFiles(SettingLines)) /\ [][AffNext]_vars

SpecAffBreak == AffInit(AffFiles(BreakLines)) /\ [][AffNext]_vars

SpecAffFlags == AffInit(AffFiles(FlagLines)) /\ [][AffNext]_vars

SpecAffConv == AffInit(AffFiles(ConvLines)) /\ [][AffNext]_vars

SpecAffAffix == AffInit(AffFiles(AffixBodyLines)) /\ [][AffNext]_vars

SpecAffCross == AffInit(AffFiles(CrossLines)) /\ [][AffNext]_vars

\* parse_aff on a new Aff_Data, then parse_dic on a dictionary stream
InitDic == AffInit(DicAffFiles)

SpecDic == InitDic /\ [][DicNext]_vars

(***************************************************************************)
(* Claims.                                                                 *)
(***************************************************************************)
StrictlyAscending(q) == \A k \in 1..(Len(q) - 1) : q[k] < q[k + 1]

\* C1: after any sequence of Flag_Set operations (construction, assignment,
\* insert of a sequence, erase of a flag) the backing flag sequence is strictly
\* ascending, that is sorted and free of duplicates.
C1_FlagSetSorted == StrictlyAscending(flags)

\* an erase that removed a flag from the middle of a set of three or more
C1_Witness == fs_op = "erase" /\ fs_ret /\ Len(flags) >= 2

IsPrefix(p, w) == Len(p) <= Len(w) /\ SubSeq(w, 1, Len(p)) = p

\* C2: after constructing or assigning a Substr_Replacer from any list of pairs
\* the keys of the table are strictly ascending (sorted, no two entries with
\* the same key) and no entry has the empty key.
C2_ReplacerKeysAscending ==
    /\ \A k \in 1..(Len(table) - 1) : StrLess(table[k][1], table[k + 1][1])
    /\ \A k \in 1..Len(table) : table[k][1] # <<>>

\* a table of three entries was built by the assignment or the constructor
C2_Witness == rep_pc = "idle" /\ Len(table) = MaxPairs

\* the table keys that are a prefix of w
PrefixKeys(t, w) == {k \in 1..Len(t) : IsPrefix(t[k][1], w)}
LongestPrefixKey(t, w) ==
    CHOOSE k \in PrefixKeys(t, w) : \A j \in PrefixKeys(t, w) : Len(t[j][1]) <= Len(t[k][1])

\* C3: at every position i that replace(s) visits, if at least one table key is
\* a prefix of s[i..] then the longest such key is replaced by its replacement
\* and i moves past the replacement.
C3_LongestKeyReplaced ==
    [][(rep_pc = "loop" /\ rep_i < Len(rep_s)
          /\ PrefixKeys(table, SubSeq(rep_s, rep_i + 1, Len(rep_s))) # {})
        => LET k == LongestPrefixKey(table, SubSeq(rep_s, rep_i + 1, Len(rep_s)))
           IN  /\ rep_s' = StrReplace(rep_s, rep_i, Len(table[k][1]), table[k][2])
               /\ rep_i' = rep_i + Len(table[k][2])]_vars

\* C4: after constructing or assigning a Break_Table from any list of patterns
\* no start-word break begins with '^' or is empty, and no end-word break
\* ends with '$' or is empty.
C4_BreakPartitionsClean ==
    /\ \A k \in 1..Len(start_word_breaks(brk)) :
          LET e == start_word_breaks(brk)[k] IN e # <<>> /\ e[1] # CARET
    /\ \A k \in 1..Len(end_word_breaks(brk)) :
          LET e == end_word_breaks(brk)[k] IN e # <<>> /\ e[Len(e)] # DOLAR

\* C5: every probe call that break_and_spell makes for an end-word break p
\* (s ends with p) passes s with the trailing p removed, and every call for a
\* start-word break p passes s with the leading p removed.
C5_EndBreakProbesHead ==
    \A k \in 1..Len(brk_calls) :
        LET c == brk_calls[k] IN
        /\ c.kind = "end" => c.arg = SubSeq(brk_s, 1, Len(brk_s) - Len(c.pat))
        /\ c.kind = "start" => c.arg = SubSeq(brk_s, Len(c.pat) + 1, Len(brk_s))

IsSuffix(p, w) == Len(p) <= Len(w) /\ SubSeq(w, Len(w) - Len(p) + 1, Len(w)) = p

\* the word given to to_root starts (prefix entry) or ends (suffix entry) with
\* the append string of the entry
HasAppend(e, w) ==
    IF e.kind = "PFX" THEN IsPrefix(e.appending, w) ELSE IsSuffix(e.appending, w)

\* C6: for every prefix (suffix) entry and every word w that starts (ends)
\* with the append string, to_root succeeds and to_derived(to_root(w)) = w.
C6_DerivedOfRoot ==
    /\ (afx_pc = "derived" /\ HasAppend(afx, afx_arg)) => afx_word = afx_arg
    /\ (afx_pc = "threw") => ~HasAppend(afx, afx_arg)

\* a round trip through a suffix entry with a non-empty strip and a non-empty
\* append that differ
C6_Witness ==
    /\ afx_pc = "derived" /\ HasAppend(afx, afx_arg)
    /\ afx.kind = "SFX" /\ afx.stripping # <<>> /\ afx.appending # <<>>
    /\ afx.stripping # afx.appending
    /\ Len(afx_arg) > Len(afx.appending)

\* the same round trip through a prefix entry
C6_WitnessPrefix ==
    /\ afx_pc = "derived" /\ HasAppend(afx, afx_arg)
    /\ afx.kind = "PFX" /\ afx.stripping = <<>> /\ afx.appending # <<>>

\* the first line of a stream's content
FirstLine(bytes) == getline(IStream(bytes), <<>>).line

\* C10: strip_bom leaves the stream after the three bytes EF BB BF when it
\* starts with them; otherwise it leaves the remaining content equal to the
\* original content with no fail bit set, also for streams of 0, 1 or 2
\* bytes, and the following getline reads the original first line.
C10_StripBomRestores ==
    /\ (bom_pc = "stripped" /\ IsPrefix(BOM, bom_in.buf)) => bom_in.pos = 3
    /\ (bom_pc = "stripped" /\ ~IsPrefix(BOM, bom_in.buf))
          => bom_in.pos = 0 /\ ~bom_in.failbit
    /\ (bom_pc = "read" /\ ~IsPrefix(BOM, bom_in.buf))
          => bom_line = FirstLine(bom_in.buf)

\* the text of the affix stream: its content after the BOM, if it has one
TextOf(bytes) == IF IsPrefix(BOM, bytes) THEN SubSeq(bytes, 4, Len(bytes)) ELSE bytes

\* the pieces of s between the separators in S
RECURSIVE SplitAt(_, _)
SplitAt(s, S) ==
    LET e == ScanNotIn(s, 0, S)
    IN  IF e = Len(s) THEN <<s>>
        ELSE <<SubSeq(s, 1, e)>> \o SplitAt(SubSeq(s, e + 2, Len(s)), S)

\* the lines of the affix stream and the words of a line
AffLines == SplitAt(TextOf(aff_in.buf), {NEWLINE})
Words(line) == SelectSeq(SplitAt(line, {32}), LAMBDA w : w # <<>>)
CommandOf(line) == IF Words(line) = <<>> THEN <<>> ELSE to_upper(Words(line)[1])

\* the numbers of the lines of the command, and of the lines of PFX or SFX
\* for the flag f
OccurrencesOf(c) == {k \in 1..Len(AffLines) : CommandOf(AffLines[k]) = Ascii[c]}
AffixOccurrencesOf(c, f) ==
    {k \in OccurrencesOf(c) : Len(Words(AffLines[k])) >= 2 /\ Words(AffLines[k])[2][1] = f}
FirstOf(S) == CHOOSE k \in S : \A j \in S : k <= j
LastOf(S) == CHOOSE k \in S : \A j \in S : k >= j

\* the count that word number n of the line declares, 0 when it has none
CountIn(line, n) ==
    IF Len(Words(line)) < n THEN 0
    ELSE LET w == Words(line)[n] IN DigitsValue(SubSeq(w, 1, ScanIn(w, 0, DigitChars)))
DeclaredCount(c) == CountIn(AffLines[FirstOf(OccurrencesOf(c))], 2)
DeclaredAffixCount(c, f) == CountIn(AffLines[FirstOf(AffixOccurrencesOf(c, f))], 4)

\* the entries of the affix vector vec that carry the flag f
WithFlag(vec, f) == SelectSeq(vec, LAMBDA e : e.flag = f)

\* the stored entries never exceed the count the first line of the command
\* (for PFX and SFX: of the command and flag) declares
C7_WithinCount ==
    /\ \A c \in VecCommands :
          OccurrencesOf(c) # {} => Len(aff.vecs[c]) <= DeclaredCount(c)
    /\ \A k \in 1..Len(aff.prefixes) :
          LET f == aff.prefixes[k].flag
          IN  Len(WithFlag(aff.prefixes, f)) <= DeclaredAffixCount("PFX", f)
    /\ \A k \in 1..Len(aff.suffixes) :
          LET f == aff.suffixes[k].flag
          IN  Len(WithFlag(aff.suffixes, f)) <= DeclaredAffixCount("SFX", f)

\* once the count of a command is used up, no step changes its entries
C7_UsedUpFrame ==
    /\ \A c \in DOMAIN aff.cmd_with_vec_cnt :
          aff.cmd_with_vec_cnt[c] = 0 => aff'.vecs[c] = aff.vecs[c]
    /\ \A key \in DOMAIN aff.cmd_affix :
          aff.cmd_affix[key].second = 0 =>
              LET f == key[2] + 256 * key[3]
              IN  IF key[1] = "PFX"
                  THEN WithFlag(aff'.prefixes, f) = WithFlag(aff.prefixes, f)
                  ELSE WithFlag(aff'.suffixes, f) = WithFlag(aff.suffixes, f)

\* C7: for every counted command (REP, PHONE, ICONV, OCONV, MAP, BREAK, AF,
\* AM, CHECKCOMPOUNDPATTERN, COMPOUNDRULE, and PFX/SFX per flag) the number
\* of stored entries never exceeds the count N declared by the first
\* occurrence, N being 0 if that line has no parseable count, and every
\* occurrence after the N entries are used up leaves the entries unchanged.
C7_CountedEntries == [](C7_WithinCount) /\ [][C7_UsedUpFrame]_vars

\* REP 1 followed by two REP entry lines: one entry is stored, the other
\* is ignored
C7_Witness ==
    /\ aff_pc = "done"
    /\ Cardinality(OccurrencesOf("REP")) = 3
    /\ DeclaredCount("REP") = 1
    /\ Len(aff.vecs["REP"]) = 1
    /\ Len(Words(AffLines[3])) = 3

\* a prefix entry stored under a header that declares one, and a further
\* entry line of the flag ignored
C7_WitnessAffix ==
    /\ aff_pc = "done"
    /\ Cardinality(AffixOccurrencesOf("PFX", 65)) = 3
    /\ DeclaredAffixCount("PFX", 65) = 1
    /\ Len(aff.prefixes) = 1
    /\ AffLines[2] = AffLines[3]

\* the second word of the first line of the command that has one, "" when
\* no line of the command has a second word
FirstValue(c) ==
    LET set == {k \in OccurrencesOf(c) : Len(Words(AffLines[k])) >= 2}
    IN  IF set = {} THEN <<>> ELSE Words(AffLines[FirstOf(set)])[2]

\* a string setting or the encoding that is set is not changed by any step
C8_SetFrame ==
    /\ \A c \in StringCommands :
          aff.command_strings[c] # <<>> => aff'.command_strings[c] = aff.command_strings[c]
    /\ aff.encoding # <<>> => aff'.encoding = aff.encoding

\* after parse_aff the settings have the values their first setting lines gave
C8_FirstValues ==
    aff_pc = "done" =>
        /\ \A c \in StringCommands : aff.command_strings[c] = FirstValue(c)
        /\ aff.encoding = Encoding(FirstValue("SET"))

\* C8: for each string setting (LANG, IGNORE, KEY, TRY, WORDCHARS) and for
\* SET, once a line has given the setting a non-empty value every later line
\* of the command leaves it unchanged; the value after parse_aff is the one
\* from the first line that set it.
C8_FirstSettingWins == [](C8_FirstValues) /\ [][C8_SetFrame]_vars

\* a LANG line without a value, then two LANG lines with different values:
\* the first value stays
C8_Witness ==
    /\ aff_pc = "done"
    /\ Cardinality(OccurrencesOf("LANG")) = 3
    /\ Len(Words(AffLines[1])) = 1
    /\ Len(Words(AffLines[2])) = 2 /\ Len(Words(AffLines[3])) = 2
    /\ aff.command_strings["LANG"] = Words(AffLines[2])[2]
    /\ Words(AffLines[3])[2] # Words(AffLines[2])[2]

\* two SET lines with different labels: the first one stays
C8_WitnessSet ==
    /\ aff_pc = "done"
    /\ Cardinality(OccurrencesOf("SET")) = 2
    /\ is_utf8(aff.encoding)
    /\ Len(Words(AffLines[LastOf(OccurrencesOf("SET"))])) = 2
    /\ Encoding(Words(AffLines[LastOf(OccurrencesOf("SET"))])[2]) # aff.encoding

\* the break table parse_aff fills: the wide one for a UTF-8 stream
ActiveBreakTable ==
    IF is_utf8(aff.encoding) THEN aff.wide_structures.break_table
    ELSE aff.structures.break_table

\* C9: at the end of parse_aff the default break patterns "-", "^-", "-$"
\* are installed into the break table if and only if the stream has no
\* BREAK line (else the table holds patterns of the BREAK lines only); a
\* stream that is empty or only a BOM makes parse_aff return true with Flag
\* Type SINGLE_CHAR, empty encoding and a break table of exactly one
\* start-word break "-", one end-word break "-" and one middle break "-".
C9_DefaultBreakIffNoBreakLine ==
    aff_pc = "done" =>
        /\ ActiveBreakTable \in order_entries(break_patterns(aff))
        /\ OccurrencesOf("BREAK") = {} => break_patterns(aff) = DefaultBreakPatterns
        /\ OccurrencesOf("BREAK") # {} =>
              /\ Len(break_patterns(aff)) < Cardinality(OccurrencesOf("BREAK"))
              /\ \A k \in 1..Len(break_patterns(aff)) :
                    \E n \in OccurrencesOf("BREAK") :
                        /\ Len(Words(AffLines[n])) >= 2
                        /\ Words(AffLines[n])[2] = break_patterns(aff)[k]
        /\ TextOf(aff_in.buf) = <<>> =>
              /\ aff_ret
              /\ aff.flag_type = "FLAG_SINGLE_CHAR"
              /\ aff.encoding = <<>>
              /\ start_word_breaks(ActiveBreakTable) = <<<<HYPHEN>>>>
              /\ end_word_breaks(ActiveBreakTable) = <<<<HYPHEN>>>>
              /\ middle_word_breaks(ActiveBreakTable) = <<<<HYPHEN>>>>

\* parse_aff has returned on a stream that is only a BOM
C9_Witness ==
    /\ aff_pc = "done"
    /\ aff_in.buf = BOM
    /\ aff_ret

\* parse_aff has returned on a stream with BREAK lines that declare and
\* give one pattern, which is not one of the defaults
C9_WitnessBreakLine ==
    /\ aff_pc = "done"
    /\ OccurrencesOf("BREAK") # {}
    /\ Len(break_patterns(aff)) = 1
    /\ break_patterns(aff)[1] \notin {<<HYPHEN>>, <<CARET, HYPHEN>>, <<HYPHEN, DOLAR>>}

\* C11: a line with a syntactic error (here: a flag setting without its
\* flag, an integer setting without a parseable integer, a FLAG line with
\* an unknown argument, a counted command without its count) is not fatal:
\* parse_aff never leaves the process, every later well-formed line takes
\* effect (TRY has the value of its first line) and parse_aff returns true
\* once the end of the stream is reached.
C11_SyntaxErrorsNonFatal ==
    /\ aff_pc # "exited"
    /\ aff_pc = "done" =>
          /\ aff_ret
          /\ aff.command_strings["TRY"] = FirstValue("TRY")

\* the lines of the command c that the loop of parse_aff has read
ReadOccurrencesOf(c) == {k \in OccurrencesOf(c) : k <= aff.line_num}

\* no step changes a flag setting or an integer setting whose command has
\* occurred in a line read before
C19_OccurredFrame ==
    /\ \A c \in ShortCommands :
          ReadOccurrencesOf(c) # {} => aff'.command_shorts[c] = aff.command_shorts[c]
    /\ \A c \in FlagCommands :
          ReadOccurrencesOf(c) # {} => aff'.command_flag[c] = aff.command_flag[c]

\* C19: for every single-valued flag setting and every integer setting, the
\* value held is the one the first line of the command gave: every later
\* line of the command leaves it unchanged.
C19_FirstOccurrenceKept == [][C19_OccurredFrame]_vars

\* the Flag Type that the argument of a FLAG line stands for
FlagTypeOfArgument(p) ==
    IF to_upper(p) = <<76, 79, 78, 71>> THEN "FLAG_DOUBLE_CHAR"       \* "LONG"
    ELSE IF to_upper(p) = <<78, 85, 77>> THEN "FLAG_NUMBER"            \* "NUM"
    ELSE IF to_upper(p) = <<85, 84, 70, 45, 56>> THEN "FLAG_UTF8"      \* "UTF-8"
    ELSE "FLAG_SINGLE_CHAR"

\* the words of the last FLAG line
LastFlagLine == Words(AffLines[LastOf(OccurrencesOf("FLAG"))])

\* C20: after parse_aff the Flag Type is the one the argument of the last
\* FLAG line stands for (DOUBLE_CHAR for LONG, NUMBER for NUM, UTF8 for
\* UTF-8, SINGLE_CHAR for any other argument, whatever FLAG lines preceded
\* it), and SINGLE_CHAR when the stream has no FLAG line.
C20_FlagTypeOfLastFlagLine ==
    aff_pc = "done" =>
        /\ OccurrencesOf("FLAG") = {} => aff.flag_type = "FLAG_SINGLE_CHAR"
        /\ (OccurrencesOf("FLAG") # {} /\ Len(LastFlagLine) >= 2)
              => aff.flag_type = FlagTypeOfArgument(LastFlagLine[2])

\* the lines of the dictionary stream, its content after the BOM
DicText == TextOf(dic_in.buf)
DicLinesOf == SplitAt(DicText, {NEWLINE})

\* the line begins with a decimal count: its first character after the
\* white space is a digit
BeginsWithCount(line) ==
    /\ ScanIn(line, 0, SpaceChars) < Len(line)
    /\ line[ScanIn(line, 0, SpaceChars) + 1] \in DigitChars

\* the stream has no first line, or one that does not begin with a count
C12_NoCount == DicText = <<>> \/ ~BeginsWithCount(DicLinesOf[1])

C13_MixedCaseHasHiddenHomonym ==
    \A k \in 1..Len(words) :
        classify_casing(words[k].key) \in {"PASCAL", "CAMEL"}
            => HiddenHomonyms(words, to_upper(words[k].key)) # {}

\* C14: no two entries of the Dic Map have the same key and the same flag
\* set.
C14_NoEqualEntries ==
    \A i \in 1..Len(words) : \A j \in 1..Len(words) :
        i # j => words[i] # words[j]

\* what follows the slash of the line parse_dic has read last
DicAfterSlash == SubSeq(dic_line, SlashLoop(dic_line, 0) + 2, Len(dic_line))

\* the token after the slash is an integer i with 1 <= i <= |aliases|
C15_IsAliasIndex ==
    /\ flag_aliases(aff) # <<>>
    /\ ~ReadSizeT(IStream(DicAfterSlash), 0).in.failbit
    /\ ReadSizeT(IStream(DicAfterSlash), 0).val \in 1..Len(flag_aliases(aff))

\* C15: the flags decode_flags_possible_alias gives for the token after the
\* slash of a dictionary line are the i-th alias flag set when the alias
\* table is not empty and the token is an integer i with
\* 1 <= i <= |aliases|, and in every other case the token decoded under
\* the Flag Type as decode_flags decodes it.
C15_AliasOrDecodedToken ==
    (dic_pc = "loop" /\ dic_line_number > 1 /\ SlashLoop(dic_line, 0) # npos) =>
        dic_flags = IF C15_IsAliasIndex
                    THEN flag_aliases(aff)[ReadSizeT(IStream(DicAfterSlash), 0).val]
                    ELSE decode_flags(IStream(DicAfterSlash), aff.flag_type,
                                      aff.encoding).ret

\* the first pair of the list v whose pattern is key
FirstWithKey(v, key) == v[FirstOf({k \in 1..Len(v) : v[k][1] = key})]

\* every pair of the table t is the first pair of the list v with its
\* pattern
KeepsFirstOf(t, v) == \A k \in 1..Len(t) : t[k] = FirstWithKey(v, t[k][1])

\* C16: when the list given to a Substr_Replacer holds several pairs with
\* the same pattern, the pair kept in the table is the one that came first
\* in the list (here: the lists of the ICONV and OCONV lines, which
\* parse_aff assigns to the two replacers).
C16_FirstDuplicateKept ==
    aff_pc = "done" =>
        /\ KeepsFirstOf(aff.structures.input_substr_replacer, input_conversion(aff))
        /\ KeepsFirstOf(aff.structures.output_substr_replacer, output_conversion(aff))

\* ---------------------------------------------------------------------
\* C17: in break_and_spell(s, probe), for each (non-empty) middle break
\* pattern p, if some occurrence of p strictly inside s (not starting at
\* index 0 and not ending at the end of s) splits s into two parts that both
\* probe successfully, break_and_spell returns true.
\* ---------------------------------------------------------------------
\* the offsets of the occurrences of pat that lie strictly inside s
InnerOccurrences(s, pat) ==
    {i \in 1..(Len(s) - Len(pat) - 1) : SubSeq(s, i + 1, i + Len(pat)) = pat}

C17_SplitsAt(s, pat, W) ==
    {i \in InnerOccurrences(s, pat) :
        SubSeq(s, 1, i) \in W /\ Substr(s, i + Len(pat)) \in W}

C17_EveryOccurrenceTried ==
    brk_pc = "done" =>
        \A k \in 1..Len(middle_word_breaks(brk)) :
            (/\ middle_word_breaks(brk)[k] # <<>>
             /\ C17_SplitsAt(brk_s, middle_word_breaks(brk)[k], brk_words) # {})
            => brk_ret

\* ---------------------------------------------------------------------
\* C18: every affix entry that parse_affix stores from a PFX/SFX body line
\* has a strip different from "0" and an append different from "0" (both
\* normalized to the empty string) and a non-empty condition ("." when the
\* line gives none); Prefix_Entry prepends '^' and Suffix_Entry appends '$'
\* to that condition.
\* ---------------------------------------------------------------------
\* the structures parse_aff fills: the wide ones for a UTF-8 stream
ActiveStructures ==
    IF is_utf8(aff.encoding) THEN aff.wide_structures ELSE aff.structures
ActiveString(x) == IF is_utf8(aff.encoding) THEN u_to_u(x) ELSE x

\* "0" stands for the empty string
ZeroIsEmpty(x) == IF x = <<48>> THEN <<>> ELSE x
BeforeSlash(w) == SubSeq(w, 1, ScanNotIn(w, 0, {SLASH}))

C18_EntryNormalized(e) ==
    e.stripping # <<48>> /\ e.appending # <<48>> /\ e.condition # <<>>

C18_StoredNormalized ==
    /\ \A k \in 1..Len(aff.prefixes) : C18_EntryNormalized(aff.prefixes[k])
    /\ \A k \in 1..Len(aff.suffixes) : C18_EntryNormalized(aff.suffixes[k])

C18_Anchored ==
    aff_pc = "done" =>
        /\ Len(ActiveStructures.prefixes) = Len(aff.prefixes)
        /\ Len(ActiveStructures.suffixes) = Len(aff.suffixes)
        /\ \A k \in 1..Len(aff.prefixes) :
              ActiveStructures.prefixes[k].condition =
                  <<CARET>> \o ActiveString(aff.prefixes[k].condition)
        /\ \A k \in 1..Len(aff.suffixes) :
              ActiveStructures.suffixes[k].condition =
                  ActiveString(aff.suffixes[k].condition) \o <<DOLAR>>

\* the entry e stored from the line with the words w
C18_EntryOfLine(e, w) ==
    /\ Len(w) >= 4
    /\ e.stripping = ZeroIsEmpty(w[3])
    /\ e.appending = ZeroIsEmpty(BeforeSlash(w[4]))
    /\ Len(w) = 4 => e.condition = <<46>>

\* a step that stores an entry stores the one of the line just read
C18_StoredFrame ==
    /\ Len(aff'.prefixes) = Len(aff.prefixes) + 1 =>
          C18_EntryOfLine(aff'.prefixes[Len(aff'.prefixes)],
                          Words(AffLines[aff'.line_num]))
    /\ Len(aff'.suffixes) = Len(aff.suffixes) + 1 =>
          C18_EntryOfLine(aff'.suffixes[Len(aff'.suffixes)],
                          Words(AffLines[aff'.line_num]))

C18_AffixEntriesNormalized ==
    [](C18_StoredNormalized /\ C18_Anchored) /\ [][C18_StoredFrame]_vars

\* "PFX A 0 a" stored with an empty strip and the condition ".", the entry
\* of the structures anchored by '^'
C18_Witness ==
    /\ aff_pc = "done"
    /\ Len(aff.prefixes) = 1
    /\ Len(Words(AffLines[2])) = 4
    /\ Words(AffLines[2])[3] = <<48>>
    /\ aff.prefixes[1].stripping = <<>>
    /\ aff.prefixes[1].condition = <<46>>
    /\ aff.structures.prefixes[1].condition = <<CARET, 46>>

\* "SFX A a 0 b" stored with an empty append, the entry of the structures
\* anchored by '$'
C18_WitnessSuffix ==
    /\ aff_pc = "done"
    /\ Len(aff.suffixes) = 1
    /\ Len(Words(AffLines[2])) = 5
    /\ Words(AffLines[2])[4] = <<48>>
    /\ aff.suffixes[1].appending = <<>>
    /\ aff.structures.suffixes[1].condition = <<98, DOLAR>>

\* ---------------------------------------------------------------------
\* C21: all affix entries of the same kind (prefix or suffix) registered
\* under the same flag carry the same cross-product bit, the one given by
\* the first header line seen for that kind and flag; a later line for that
\* flag never changes the recorded bit.
\* ---------------------------------------------------------------------
AffixKey(c, f) == <<c, f % 256, (f \div 256) % 256>>

\* the cross product that the first line of the command and flag gives
HeaderCross(c, f) ==
    LET w == Words(AffLines[FirstOf(AffixOccurrencesOf(c, f))])
    IN  Len(w) >= 3 /\ w[3][1] = 89

C21_EntriesCarryHeaderBit(c, vec) ==
    \A k \in 1..Len(vec) :
        /\ AffixKey(c, vec[k].flag) \in DOMAIN aff.cmd_affix
        /\ vec[k].cross_product = aff.cmd_affix[AffixKey(c, vec[k].flag)].first
        /\ vec[k].cross_product = HeaderCross(c, vec[k].flag)

C21_SameBit ==
    /\ C21_EntriesCarryHeaderBit("PFX", aff.prefixes)
    /\ C21_EntriesCarryHeaderBit("SFX", aff.suffixes)

\* no step changes a recorded bit or the bit of a stored entry
C21_BitFrame ==
    /\ \A key \in DOMAIN aff.cmd_affix :
          /\ key \in DOMAIN aff'.cmd_affix
          /\ aff'.cmd_affix[key].first = aff.cmd_affix[key].first
    /\ \A k \in 1..Len(aff.prefixes) :
          aff'.prefixes[k].cross_product = aff.prefixes[k].cross_product
    /\ \A k \in 1..Len(aff.suffixes) :
          aff'.suffixes[k].cross_product = aff.suffixes[k].cross_product

C21_CrossProductOfFirstHeader == [](C21_SameBit) /\ [][C21_BitFrame]_vars

\* "PFX A Y 2" followed by the entry "PFX A 0 a" and by "PFX A N 2", which
\* is taken as an entry: both entries carry the cross product of the header
C21_Witness ==
    /\ aff_pc = "done"
    /\ Len(aff.prefixes) = 2
    /\ Words(AffLines[1])[3] = <<89>>
    /\ Words(AffLines[3])[3] = <<78>>
    /\ aff.prefixes[1].cross_product
    /\ aff.prefixes[2].cross_product
    /\ aff.prefixes[2].stripping = <<78>>

\* ---------------------------------------------------------------------
\* C22: for every dictionary line after the count line that contains a '/'
\* not immediately preceded by a backslash, the word taken by parse_dic is
\* exactly the text before the earliest such '/', and the text after it is
\* decoded as its (possibly aliased) flag set; a '/' preceded by a backslash
\* never splits the line; a line whose word is empty inserts nothing.
\* ---------------------------------------------------------------------
\* the positions of the slashes of the line with and without a '\' before
UnescapedSlashes(line) ==
    {k \in 1..Len(line) : line[k] = SLASH /\ (k = 1 \/ line[k - 1] # BACKSLASH)}
EscapedSlashes(line) ==
    {k \in 2..Len(line) : line[k] = SLASH /\ line[k - 1] = BACKSLASH}

\* the text after position p of the line
C22_After(line, p) == SubSeq(line, p + 1, Len(line))

\* the flags of the text: the alias it numbers, else the text decoded under
\* the Flag Type when there is no alias table
C22_FlagsOf(text) ==
    IF flag_aliases(aff) = <<>>
    THEN dic_flags = decode_flags(IStream(text), aff.flag_type, aff.encoding).ret
    ELSE (/\ ~ReadSizeT(IStream(text), 0).in.failbit
          /\ ReadSizeT(IStream(text), 0).val \in 1..Len(flag_aliases(aff)))
         => dic_flags = flag_aliases(aff)[ReadSizeT(IStream(text), 0).val]

C22_WordOfLine ==
    (dic_pc \in {"loop", "exited"} /\ dic_line_number > 1) =>
        /\ UnescapedSlashes(dic_line) # {} =>
              /\ dic_word = SubSeq(dic_line, 1, FirstOf(UnescapedSlashes(dic_line)) - 1)
              /\ C22_FlagsOf(C22_After(dic_line, FirstOf(UnescapedSlashes(dic_line))))
        /\ \A k \in EscapedSlashes(dic_line) : Len(dic_word) # k - 1

C22_NoEmptyKey == \A k \in 1..Len(words) : words[k].key # <<>>

\* a line whose word is empty leaves the Dic Map as it is
C22_EmptyWordFrame ==
    (dic_line_number' = dic_line_number + 1 /\ dic_word' = <<>>) => words' = words

C22_WitnessEmptyWord ==
    /\ dic_pc = "loop"
    /\ dic_line_number = 2
    /\ dic_line = <<SLASH, 65>>
    /\ dic_word = <<>>
    /\ dic_flags = <<65>>
    /\ words = <<>>

\* ---------------------------------------------------------------------
\* C23: when parse_dic processes a line whose word w has casing PASCAL or
\* CAMEL with flags F, it inserts (w, F); and, if no entry under the
\* upper-case form U of w carries HIDDEN_HOMONYM at that moment, it
\* additionally inserts exactly one entry (U, F with HIDDEN_HOMONYM),
\* otherwise it inserts nothing under U.  "ABc/A" on an empty map yields
\* exactly ("ABc", {A}) and ("ABC", {A, HIDDEN_HOMONYM}).
\* ---------------------------------------------------------------------
\* the step is a turn of the loop of parse_dic that reaches the switch over
\* the casing: the line gave a word and the flags were read
DicReachesSwitch ==
    /\ dic_line_number' = dic_line_number + 1
    /\ dic_pc' = "loop"
    /\ dic_word' # <<>>
    /\ ~DicParseLine(dic_line', SlashLoop(dic_line', 0), aff).fail

HasFlag(fl, f) == \E j \in 1..Len(fl) : fl[j] = f
CarriesHiddenHomonym(w, key) ==
    \E k \in 1..Len(w) : w[k].key = key /\ HasFlag(w[k].flags, HIDDEN_HOMONYM_FLAG)
DicEntry(key, fl) == [key |-> key, flags |-> sort_uniq(fl)]

C23_MixedCaseFrame ==
    (DicReachesSwitch /\ classify_casing(dic_word') \in {"PASCAL", "CAMEL"}) =>
        IF CarriesHiddenHomonym(words, to_upper(dic_word'))
        THEN words' = Append(words, DicEntry(dic_word', dic_flags'))
        ELSE words' = words \o <<DicEntry(dic_word', dic_flags'),
                                 DicEntry(to_upper(dic_word'),
                                          Append(dic_flags', HIDDEN_HOMONYM_FLAG))>>

\* the first line after the count is "ABc/A", Flag Type SINGLE_CHAR, no alias
C23_Example ==
    (/\ dic_pc = "loop" /\ dic_line_number = 2
     /\ dic_line = <<65, 66, 99, SLASH, 65>>
     /\ flag_aliases(aff) = <<>>) =>
        words = <<[key |-> <<65, 66, 99>>, flags |-> <<65>>],
                  [key |-> <<65, 66, 67>>, flags |-> <<65, HIDDEN_HOMONYM_FLAG>>]>>

C23_MixedCaseInsertion == [](C23_Example) /\ [][C23_MixedCaseFrame]_vars

\* "aB/A" then "aB/B": the first line adds the hidden homonym under "AB",
\* the second adds its entry only
C23_Witness ==
    /\ dic_pc = "loop"
    /\ dic_line_number = 3
    /\ dic_line = <<97, 66, SLASH, 66>>
    /\ Len(words) = 3
    /\ words[2] = [key |-> <<65, 66>>, flags |-> <<65, HIDDEN_HOMONYM_FLAG>>]
    /\ words[3] = [key |-> <<97, 66>>, flags |-> <<66>>]

\* ---------------------------------------------------------------------
\* C24: when parse_dic processes a line whose word w is ALL_CAPITAL with
\* flags F: if some existing entry under key w carries HIDDEN_HOMONYM, the
\* number of Dic Map entries is unchanged and that entry's flag set becomes
\* exactly F (all other entries unchanged); otherwise exactly one new entry
\* (w, F) is added and all existing entries are unchanged.
\* ---------------------------------------------------------------------
C24_AllCapitalFrame ==
    (DicReachesSwitch /\ classify_casing(dic_word') = "ALL_CAPITAL") =>
        IF CarriesHiddenHomonym(words, dic_word')
        THEN /\ Len(words') = Len(words)
             /\ \E h \in 1..Len(words) :
                   /\ words[h].key = dic_word'
                   /\ HasFlag(words[h].flags, HIDDEN_HOMONYM_FLAG)
                   /\ words' = [words EXCEPT ![h] = DicEntry(dic_word', dic_flags')]
        ELSE words' = Append(words, DicEntry(dic_word', dic_flags'))

C24_AllCapitalReplacesHomonym == [][C24_AllCapitalFrame]_vars

\* "aB/A" then "AB/B": the hidden homonym under "AB" is replaced by the
\* entry of the second line
C24_Witness ==
    /\ dic_pc = "loop"
    /\ dic_line_number = 3
    /\ dic_line = <<65, 66, SLASH, 66>>
    /\ words = <<[key |-> <<97, 66>>, flags |-> <<65>>],
                 [key |-> <<65, 66>>, flags |-> <<66>>]>>

\* "AB" twice: no hidden homonym, each line adds an entry
C24_WitnessInsert ==
    /\ dic_pc = "loop"
    /\ dic_line_number = 3
    /\ dic_line = <<65, 66>>
    /\ words = <<[key |-> <<65, 66>>, flags |-> <<>>],
                 [key |-> <<65, 66>>, flags |-> <<>>]>>

\* ---------------------------------------------------------------------
\* C25: under Flag Type DOUBLE_CHAR, decode_flags on a token of n bytes
\* b1..bn yields ceil(n/2) flags: flag k is (b(2k-1) << 8) | b(2k) for each
\* complete pair, and when n is odd the last flag is bn with a zero high
\* byte ("abc" yields 0x6162, 0x0063); bytes are treated as unsigned.
\* ---------------------------------------------------------------------
PairedFlags(token) ==
    [k \in 1..((Len(token) + 1) \div 2) |->
        IF 2 * k <= Len(token) THEN token[2 * k - 1] * 256 + token[2 * k]
        ELSE token[Len(token)]]

\* the token after the first slash of the line parse_dic has read last
DicFlagToken ==
    Words(C22_After(dic_line, FirstOf(UnescapedSlashes(dic_line))))[1]

\* parse_dic has given decode_flags the token of a line under DOUBLE_CHAR
C25_Decoded ==
    /\ dic_pc = "loop"
    /\ dic_line_number > 1
    /\ aff.flag_type = "FLAG_DOUBLE_CHAR"
    /\ flag_aliases(aff) = <<>>
    /\ UnescapedSlashes(dic_line) # {}
    /\ Words(C22_After(dic_line, FirstOf(UnescapedSlashes(dic_line)))) # <<>>

C25_DoubleCharPairs ==
    C25_Decoded =>
        /\ dic_flags = PairedFlags(DicFlagToken)
        /\ \A k \in 1..Len(dic_flags) : dic_flags[k] \in 0..65535

\* the token "abc" gives 0x6162, 0x0063
C25_Witness ==
    /\ C25_Decoded
    /\ DicFlagToken = <<97, 98, 99>>
    /\ dic_flags = <<24930, 99>>

\* the token of the bytes C8 61 C9 gives 0xC861, 0x00C9
C25_WitnessHighBytes ==
    /\ C25_Decoded
    /\ DicFlagToken = <<200, 97, 201>>
    /\ dic_flags = <<51297, 201>>

\* ---------------------------------------------------------------------
\* C26: Substr_Replacer::replace(s) terminates for every table and every
\* string s, including tables with empty replacements and replacements
\* that contain table keys: each loop iteration strictly decreases
\* (length of s - i), because the table never holds the empty key and i
\* advances past each spliced replacement.
\* ---------------------------------------------------------------------
C26_Measure == Len(rep_s) - rep_i

C26_NoEmptyKey == \A k \in 1..Len(table) : Len(table[k][1]) >= 1

\* an iteration of the loop lowers the measure, which stays at 0 or above
C26_IterationDecreases ==
    (rep_pc = "loop" /\ rep_pc' = "loop") =>
        /\ C26_Measure' < C26_Measure
        /\ C26_Measure' >= 0
        /\ rep_i' >= rep_i

C26_ReplaceTerminates ==
    /\ [](C26_NoEmptyKey)
    /\ [][C26_IterationDecreases]_vars
    /\ (rep_pc = "loop") ~> (rep_pc = "done")

\* replace has returned a string longer than its argument can be: a
\* replacement that holds a key ("ab" for "a") was put in more than once
C26_Witness ==
    /\ rep_pc = "done"
    /\ Len(rep_s) > MaxStr + 1
    /\ \E k \in 1..Len(table) : IsPrefix(table[k][1], table[k][2])
    /\ rep_i = Len(rep_s)

\* replace has returned the empty string: every character was replaced by
\* an empty replacement
C26_WitnessEmptyReplacement ==
    /\ rep_pc = "done"
    /\ table # <<>>
    /\ rep_s = <<>>
    /\ rep_i = 0

\* ---------------------------------------------------------------------
\* C27: for every Break_Table built from any pattern list and every string
\* s, each string that break_and_spell(s, probe) passes to the probe is
\* strictly shorter than s (stated here for the strings s that are not
\* empty).
\* ---------------------------------------------------------------------
C27_ProbesShorter ==
    (brk_pc = "done" /\ brk_s # <<>>) =>
        \A k \in 1..Len(brk_calls) : Len(brk_calls[k].arg) < Len(brk_s)

\* ---------------------------------------------------------------------
\* C28: after parse_dic has processed any sequence of dictionary lines
\* whose own flag sets never contain the sentinel 0xFFFF, every Dic Map key
\* has at most one entry whose flag set contains HIDDEN_HOMONYM, and every
\* such entry's key is an all-uppercase form.  (No line of the streams
\* here gives the sentinel as a flag.)
\* ---------------------------------------------------------------------
HiddenHomonymEntries == {k \in 1..Len(words) : HasFlag(words[k].flags, HIDDEN_HOMONYM_FLAG)}

C28_OneHiddenHomonymPerKey ==
    /\ \A i \in HiddenHomonymEntries : \A j \in HiddenHomonymEntries :
          words[i].key = words[j].key => i = j
    /\ \A k \in HiddenHomonymEntries :
          /\ to_upper(words[k].key) = words[k].key
          /\ classify_casing(words[k].key) \notin {"PASCAL", "CAMEL"}

\* two lines in CAMEL case with the same upper-case form have been read:
\* the Dic Map has their two entries and one hidden homonym
C28_Witness ==
    /\ dic_pc = "done"
    /\ dic_ret
    /\ Len(words) = 3
    /\ Cardinality(HiddenHomonymEntries) = 1
    /\ Cardinality({k \in 1..Len(words) : classify_casing(words[k].key) = "CAMEL"}) = 2

====
